---- MODULE Spec2Model ----
(***************************************************************************)
(* Model of the sisifo task queue: the JSONL record store                  *)
(* (orchestration/store/repository.py), the status machine                 *)
(* (orchestration/core/models.py) and the callers that drive the store     *)
(* (runner pipelines and CLI commands).                                    *)
(*                                                                         *)
(* The record file and its sibling temp file are modelled as paths that    *)
(* name inodes.  flock() locks the inode that was open()ed, open(tmp,"w")  *)
(* truncates the inode the temp path names, a buffered write lands at      *)
(* offset 0 of the inode the handle refers to, and replace() makes the     *)
(* record path name the temp inode.                                        *)
(***************************************************************************)
EXTENDS Integers, Sequences, FiniteSets, TLC

\* ---------------------------------------------------------------- bounds
MaxOps == 3        \* store operations started in one behaviour
MaxFaults == 1     \* injected write failures / kills in one behaviour
RetryDepth == 5    \* operations a behaviour of retries may start beyond MaxOps
CleanupDepth == 3  \* the same for a behaviour of cancels and cleanups
PassDepth == 3     \* the same for a cmd_run invocation
MaxClock == 2      \* readings the clock takes after the first

\* ------------------------------------------------------------- constants
TaskIds == {"T1", "T2"}
VALID_STATUSES == {"todo", "planning", "building", "review", "done", "failed", "cancelled"}
Bogus == "bogus"                       \* a status value outside VALID_STATUSES

\* Callers are threads; threads of one process share one QueueStore.
Stores == {"s1", "s2", "s3"}
Callers == {"c1", "c2", "c3", "c4"}
StoreOf ==
  [c \in Callers |-> IF c = "c3" THEN "s2" ELSE IF c = "c4" THEN "s3" ELSE "s1"]

None == "none"

\* Paths and names are sequences of their components; the empty string is
\* the empty sequence.
NoPath == <<>>

\* A line of the file that does not parse (json.loads raises).
Garbled ==
  [id |-> "#", status |-> "#", branch |-> <<"#">>, worktree_path |-> <<"#">>,
   container |-> <<"#">>, port |-> -1, session_id |-> <<"#">>, attempt |-> -1,
   error_file |-> <<"#">>, opencode_attempt_dir |-> <<"#">>,
   opencode_config_dir |-> <<"#">>, opencode_data_dir |-> <<"#">>, updated_at |-> -1]

\* ------------------------------------------------------------ naming
derive_branch_name(id) == <<"task", id>>

derive_worktree_path(id) == <<"worktrees", id>>

get_attempt_dir(id, attempt) == <<"opencode", id, attempt + 1>>

get_attempt_config_dir(id, attempt) == get_attempt_dir(id, attempt) \o <<"config">>

get_attempt_data_dir(id, attempt) == get_attempt_dir(id, attempt) \o <<"data">>

\* write_error_report: queue/errors/<id>-<unix-ts>.md
error_path(id, ts) == <<"errors", id, ts>>

\* The port reserve_port hands to worker w and the id launch_container
\* returns to it; "c0" is a worker of an earlier run.
reserve_port(w) ==
  CASE w = "c0" -> 1 [] w = "c1" -> 2 [] w = "c2" -> 3 [] w = "c3" -> 4 [] OTHER -> 5

launch_container(id, w) == <<"container", id, w>>

\* ------------------------------------------------------ TaskRecord model
\* cmd_add: the record of a new task
NewRecord(id) ==
  [id |-> id, status |-> "todo", branch |-> derive_branch_name(id),
   worktree_path |-> derive_worktree_path(id), container |-> NoPath, port |-> 0,
   session_id |-> NoPath, attempt |-> 0, error_file |-> NoPath,
   opencode_attempt_dir |-> NoPath, opencode_config_dir |-> NoPath,
   opencode_data_dir |-> NoPath, updated_at |-> 0]

\* setup_stage: the fields worker w sets on the record it holds before it
\* persists the record as building
SetUp(r, w) ==
  [r EXCEPT !.branch = IF r.branch # NoPath THEN r.branch ELSE derive_branch_name(r.id),
            !.opencode_attempt_dir = get_attempt_dir(r.id, r.attempt),
            !.opencode_config_dir = get_attempt_config_dir(r.id, r.attempt),
            !.opencode_data_dir = get_attempt_data_dir(r.id, r.attempt),
            !.port = reserve_port(w),
            !.container = launch_container(r.id, w),
            !.status = "building"]

\* A record as the commands and the pipeline leave it in status st: set up
\* by an earlier worker once it has been building, with a report once it
\* has failed.
Rec(id, st) ==
  CASE st \in {"building", "review", "done"} ->
         [SetUp(NewRecord(id), "c0") EXCEPT !.status = st]
    [] st = "failed" ->
         [NewRecord(id) EXCEPT !.status = st, !.error_file = error_path(id, 0)]
    [] OTHER -> [NewRecord(id) EXCEPT !.status = st]

validate(r) == r.status \in VALID_STATUSES

TransitionsBroken ==
  [s \in VALID_STATUSES |->
     CASE s = "todo" -> {"planning", "cancelled"}
       [] s = "planning" -> {"building", "failed", "cancelled"}
       [] s = "building" -> {"review", "failed"}
       [] s = "review" -> {"done", "cancelled"}
       [] s = "failed" -> {"todo", "cancelled"}
       [] s = "done" -> {"todo"}
       [] s = "cancelled" -> {}]

Transitions ==
  [s \in VALID_STATUSES |->
     CASE s = "todo" -> {"planning", "cancelled"}
       [] s = "planning" -> {"building", "failed", "cancelled"}
       [] s = "building" -> {"review", "failed"}
       [] s = "review" -> {"done", "cancelled"}
       [] s = "failed" -> {"todo", "cancelled"}
       [] s = "done" -> {}
       [] s = "cancelled" -> {}]

is_valid_transition(from, to) ==
  to \in (IF from \in DOMAIN Transitions THEN Transitions[from] ELSE {})

\* ------------------------------------------------------- pure list helpers
Ids(rs) == {rs[i].id : i \in 1..Len(rs)}

IndexOf(rs, id) ==
  IF \E i \in 1..Len(rs) : rs[i].id = id
  THEN CHOOSE i \in 1..Len(rs) : rs[i].id = id /\ \A j \in 1..(i-1) : rs[j].id # id
  ELSE 0

LastTodoIndex(rs) ==
  IF \E i \in 1..Len(rs) : rs[i].status = "todo"
  THEN CHOOSE i \in 1..Len(rs) :
         rs[i].status = "todo" /\ \A j \in (i+1)..Len(rs) : rs[j].status # "todo"
  ELSE 0

FirstTodoIndex(rs) ==
  IF \E i \in 1..Len(rs) : rs[i].status = "todo"
  THEN CHOOSE i \in 1..Len(rs) :
         rs[i].status = "todo" /\ \A j \in 1..(i-1) : rs[j].status # "todo"
  ELSE 0

ReplaceAt(rs, i, r) == [rs EXCEPT ![i] = r]

\* The record the store finds under an id (the first line carrying it).
NoRec == Rec(None, None)

RecOf(rs, id) == IF IndexOf(rs, id) = 0 THEN NoRec ELSE rs[IndexOf(rs, id)]

\* record_dict.update(updates)
Merge(r, updates) ==
  [f \in DOMAIN r |-> IF f \in DOMAIN updates THEN updates[f] ELSE r[f]]

Without(rs, id) == SelectSeq(rs, LAMBDA r : r.id # id)

\* TaskRecord.from_dict is cls(**data): the line's keys must be the fields of
\* the dataclass, a key of any other name makes the constructor raise.
from_dict(line) == DOMAIN line = DOMAIN NoRec

\* _read_all_records gets through the file: every line parses and builds a
\* TaskRecord.
Readable(rs) == \A i \in 1..Len(rs) : rs[i] # Garbled /\ from_dict(rs[i])

\* Bytes written at offset 0 of an inode that already holds `old`: the new
\* lines replace the front; what lies behind them stays (whole lines when
\* the line lengths agree, a torn line otherwise).
Overlays(old, new) ==
  IF new = <<>> THEN {old}
  ELSE IF Len(old) <= Len(new) THEN {new}
  ELSE {new \o SubSeq(old, Len(new) + 1, Len(old)), new \o <<Garbled>>}

\* ----------------------------------------------------------------- state
VARIABLES
  fileRecs,    \* lines of the inode that tasks.jsonl names
  tasksIno,    \* inode that tasks.jsonl names
  tmpIno,      \* inode that tasks.jsonl.tmp names, 0 when the path is absent
  tmpRecs,     \* lines of that inode
  rlock,       \* per store: the thread inside `with self._lock`, or None
  lockH,       \* per store: inode of _file_lock_handle, 0 when it is None
  flocked,     \* per store: flock(LOCK_EX) on lockH has been granted
  pc,          \* per caller: position inside the store operation
  cur,         \* per caller: the operation in progress
  pre,         \* per caller: the records _read_all_records returned
  recs,        \* per caller: the records handed to _write_all_records
  tmpH,        \* per caller: inode of the open temp file handle, 0 if none
  role,        \* per caller: "runner" (a worker of cmd_run), "cli" or "api"
  task,        \* per caller: id of the record its pipeline or command is about
  stage,       \* per caller: pipeline stage, or the command's pending store call
  local,       \* per caller: the TaskRecord object its pipeline or command holds
  disk,        \* worktrees, sandbox directories and reports that exist
  budget,      \* operations the behaviour may start
  run,         \* arguments and exit code of the cmd_run invocation
  opsStarted,  \* operations started so far
  faults,      \* faults injected so far
  now,         \* the reading of datetime.utcnow()
  agent,       \* a run_plan_sequence call: its inputs, its progress, its result
  sandbox,     \* a task attempt's sandbox directories: the files in them
  docker       \* the containers docker knows, and a query in progress

vars == <<fileRecs, tasksIno, tmpIno, tmpRecs, rlock, lockH, flocked,
          pc, cur, pre, recs, tmpH, role, task, stage, local, disk,
          budget, run, opsStarted, faults, now, agent, sandbox, docker>>

\* What the store's and the pipeline's steps read and never change.
envVars == <<now, agent, sandbox, docker>>

fsVars == <<fileRecs, tasksIno, tmpIno, tmpRecs>>

NoOp == [op |-> None, id |-> None, status |-> None]

NoEnv == [phase |-> None]

\* Files the store can hold when the behaviour starts: add_record accepts
\* any record whose status is valid and whose id is not yet present.  One
\* record in every status, two records in the statuses an operator acts on.
InitFiles ==
  {<<>>}
  \cup {<<Rec("T1", s)>> : s \in VALID_STATUSES}
  \cup {<<Rec("T1", s), Rec("T2", t)>> : s \in {"todo", "review"}, t \in {"todo", "review"}}

\* What a record's pipeline has left on disk.
Artifacts(r) ==
  (IF r.container # NoPath
   THEN {r.container, r.worktree_path, r.opencode_config_dir, r.opencode_data_dir}
   ELSE {})
  \cup (IF r.error_file # NoPath THEN {r.error_file} ELSE {})

InitIdle ==
  /\ tasksIno = 1
  /\ local = [c \in Callers |-> NoRec]
  /\ disk = (UNION {Artifacts(fileRecs[i]) : i \in 1..Len(fileRecs)})
  /\ tmpIno = 0
  /\ tmpRecs = <<>>
  /\ rlock = [s \in Stores |-> None]
  /\ lockH = [s \in Stores |-> 0]
  /\ flocked = [s \in Stores |-> FALSE]
  /\ pc = [c \in Callers |-> "idle"]
  /\ cur = [c \in Callers |-> NoOp]
  /\ pre = [c \in Callers |-> <<>>]
  /\ recs = [c \in Callers |-> <<>>]
  /\ tmpH = [c \in Callers |-> 0]
  /\ task = [c \in Callers |-> None]
  /\ stage = [c \in Callers |-> None]
  /\ opsStarted = 0
  /\ faults = 0

\* No adapter call is modelled; the clock stands still.
InitRest ==
  /\ InitIdle
  /\ now = 0
  /\ agent = NoEnv
  /\ sandbox = NoEnv
  /\ docker = NoEnv

\* cmd_run: mode is "id" (--id), "pass" (single pass) or "poll" (--poll);
\* exit is the value cmd_run returns, -1 while it runs.
\* No cmd_run invocation is modelled.
InitNoRun ==
  run = [mode |-> None, id |-> None, max_parallel |-> 0, cleanup_on_fail |-> FALSE,
         session_id |-> NoPath, exit |-> -1]

\* Store operations issued through the API or the CLI by two processes.
Init ==
  /\ fileRecs \in InitFiles
  /\ role = [c \in Callers |-> "api"]
  /\ budget = MaxOps
  /\ InitNoRun
  /\ InitRest

\* ------------------------------------------- the store's operations, pure
\* Each operator maps the records read to the operation's decision:
\* out = "write" with the records to hand to _write_all_records, or the
\* outcome with which the operation ends without writing.
Decision(out, id, rs) == [out |-> out, id |-> id, recs |-> rs]

add_record(rs, r) ==
  IF ~Readable(rs) THEN Decision("read_error", r.id, rs)
  ELSE IF \E i \in 1..Len(rs) : rs[i].id = r.id THEN Decision("duplicate", r.id, rs)
  ELSE Decision("write", r.id, Append(rs, r))

\* record_dict["updated_at"] = datetime.utcnow().isoformat()
Stamp(r) == [r EXCEPT !.updated_at = now]

update_record_unstamped(rs, id, updates) ==
  LET idx == IndexOf(rs, id) IN
  IF ~Readable(rs) THEN Decision("read_error", id, rs)
  ELSE IF idx = 0 THEN Decision("not_found", id, rs)
  ELSE IF /\ "status" \in DOMAIN updates
          /\ updates.status # rs[idx].status
          /\ ~is_valid_transition(rs[idx].status, updates.status)
       THEN Decision("invalid_transition", id, rs)
  ELSE IF ~validate(Merge(rs[idx], updates)) THEN Decision("invalid_status", id, rs)
  ELSE Decision("write", id, ReplaceAt(rs, idx, Merge(rs[idx], updates)))

update_record(rs, id, updates) ==
  LET idx == IndexOf(rs, id) IN
  IF ~Readable(rs) THEN Decision("read_error", id, rs)
  ELSE IF idx = 0 THEN Decision("not_found", id, rs)
  ELSE IF /\ "status" \in DOMAIN updates
          /\ updates.status # rs[idx].status
          /\ ~is_valid_transition(rs[idx].status, updates.status)
       THEN Decision("invalid_transition", id, rs)
  ELSE IF ~validate(Merge(rs[idx], updates)) THEN Decision("invalid_status", id, rs)
  ELSE Decision("write", id, ReplaceAt(rs, idx, Stamp(Merge(rs[idx], updates))))

get_record(rs, id) ==
  IF ~Readable(rs) THEN Decision("read_error", id, rs)
  ELSE IF IndexOf(rs, id) = 0 THEN Decision("absent", id, rs)
  ELSE Decision("found", id, rs)

remove_record(rs, id) ==
  IF ~Readable(rs) THEN Decision("read_error", id, rs)
  ELSE IF Len(Without(rs, id)) = Len(rs) THEN Decision("not_found", id, rs)
  ELSE Decision("write", id, Without(rs, id))

claim_first_todo_counting(rs) ==
  LET idx == FirstTodoIndex(rs) IN
  IF ~Readable(rs) THEN Decision("read_error", None, rs)
  ELSE IF idx = 0 THEN Decision("absent", None, rs)
  ELSE Decision("write", rs[idx].id,
                ReplaceAt(rs, idx, Stamp([rs[idx] EXCEPT !.status = "planning",
                                                        !.attempt = rs[idx].attempt + 1])))

claim_first_todo(rs) ==
  LET idx == FirstTodoIndex(rs) IN
  IF ~Readable(rs) THEN Decision("read_error", None, rs)
  ELSE IF idx = 0 THEN Decision("absent", None, rs)
  ELSE Decision("write", rs[idx].id, ReplaceAt(rs, idx, Stamp([rs[idx] EXCEPT !.status = "planning"])))

claim_any_by_id(rs, id) ==
  LET idx == IndexOf(rs, id) IN
  IF ~Readable(rs) THEN Decision("read_error", id, rs)
  ELSE IF idx = 0 THEN Decision("absent", id, rs)
  ELSE Decision("write", id, ReplaceAt(rs, idx, Stamp([rs[idx] EXCEPT !.status = "planning"])))

claim_todo_by_id(rs, id) ==
  LET idx == IndexOf(rs, id) IN
  IF ~Readable(rs) THEN Decision("read_error", id, rs)
  ELSE IF idx = 0 THEN Decision("absent", id, rs)
  ELSE IF rs[idx].status # "todo" THEN Decision("absent", id, rs)
  ELSE Decision("write", id, ReplaceAt(rs, idx, Stamp([rs[idx] EXCEPT !.status = "planning"])))

\* ------------------------------------------- pipeline and command position
ClaimOps == {"claim_first_todo", "claim_todo_by_id"}

\* The check a command makes on the record get_record returned.
PreCheck(cmd, r) ==
  CASE cmd = "cmd_retry" -> r.status = "failed"
    [] cmd = "cmd_approve" -> r.status = "review"
    [] cmd = "cmd_remove" -> r.status \notin {"planning", "building"}
    [] cmd = "cmd_cleanup" -> r.status \in {"done", "cancelled"}
    [] OTHER -> TRUE

\* What the command does next when the check passes.
\* <<task, stage>> of caller c once operation o has ended with outcome out.
\* A worker without a task keeps in `stage` how its last pipeline ended.
\* For a worker slot of a cmd_run invocation (role "pool") the claim is made
\* by cmd_run's loop: the record waits ("claimed") until the loop is over,
\* and `stage` keeps a claim that returned None ("absent") or raised.
StageAfter(c, o, out) ==
  CASE role[c] = "api" -> <<task[c], stage[c]>>
    [] role[c] = "pool" /\ o.op \in ClaimOps ->
         IF out = "ok" THEN <<o.id, "claimed">>
         ELSE IF out = "absent" THEN <<None, "absent">>
         ELSE <<None, "claim_raised">>
    [] o.op = "get_existing" ->
         <<None, IF out \in {"found", "absent"} THEN "not_claimable" ELSE "claim_raised">>
    [] o.op \in ClaimOps /\ out = "ok" ->
         <<o.id, IF role[c] = "runner" THEN "setup" ELSE None>>
    [] o.op = "setup_update" ->
         IF out = "ok" THEN <<task[c], "execute">>
         ELSE IF out = "io_error" THEN <<task[c], "failure">>
         ELSE <<None, "raised">>
    [] o.op = "success_update" ->
         IF out = "ok" THEN <<None, "returned">> ELSE <<task[c], "failure">>
    [] o.op = "failure_update" -> <<None, "returned">>
    [] o.op \in {"cmd_cancel", "cmd_retry", "cmd_approve", "cmd_remove", "cmd_cleanup"} ->
         IF out = "found" /\ PreCheck(o.op, RecOf(fileRecs, o.id))
         THEN <<o.id, (CASE (o.op) = "cmd_cancel" -> "cancel_update"
                         [] (o.op) = "cmd_retry" -> "retry_update"
                         [] (o.op) = "cmd_approve" -> "approve_update"
                         [] (o.op) = "cmd_remove" -> "remove_call"
                         [] OTHER -> "cleanup_artifacts")>> ELSE <<None, None>>
    [] role[c] = "cli" -> <<None, None>>
    [] OTHER -> <<task[c], stage[c]>>

\* The record object caller c holds once operation o has ended: a claim,
\* get_record and setup's update return the record they found or wrote.
\* A worker slot of cmd_run keeps the record process_task returned (the
\* future's result): the record success_stage or failure_stage got back from
\* the store, or the record failure_stage held when its update failed.
LocalAfter(c, o, out) ==
  IF role[c] = "pool" /\ o.op = "success_update" /\ out = "ok" THEN RecOf(recs[c], o.id)
  ELSE IF role[c] = "pool" /\ o.op = "failure_update"
       THEN (IF out = "ok" THEN RecOf(recs[c], o.id) ELSE local[c])
  ELSE IF StageAfter(c, o, out)[1] = None THEN NoRec
  ELSE IF out = "ok" /\ o.op \in ClaimOps \cup {"setup_update"} THEN RecOf(recs[c], o.id)
  ELSE IF out = "found" THEN RecOf(fileRecs, o.id)
  ELSE local[c]

\* ------------------------------------------------------------ lock steps
\* with self._lock: self._acquire_file_lock() up to open(tasks_file, "a+")
AcquireOpen(c) ==
  LET s == StoreOf[c] IN
  /\ pc[c] = "idle"
  /\ ~(role[c] = "pool" /\ run.mode = "poll") => opsStarted < budget
  /\ \/ task[c] = None
     \/ stage[c] \in {"setup_update", "execute", "failure_update", "cancel_update",
                      "retry_update", "approve_update", "remove_call", "cleanup_update"}
  /\ rlock[s] = None
  /\ rlock' = [rlock EXCEPT ![s] = c]
  /\ lockH' = [lockH EXCEPT ![s] = IF lockH[s] # 0 THEN lockH[s] ELSE tasksIno]
  /\ pc' = [pc EXCEPT ![c] = IF lockH[s] # 0 THEN "read" ELSE "flock"]
  /\ opsStarted' = IF (~(role[c] = "pool" /\ run.mode = "poll")) THEN opsStarted + 1 ELSE opsStarted
  /\ UNCHANGED <<fsVars, flocked, cur, pre, recs, tmpH, role, task, stage, local, disk,
                 budget, run, envVars, faults>>

\* fcntl.flock(handle, LOCK_EX): granted when no other open file
\* description holds the lock of the same inode.
Flock(c) ==
  LET s == StoreOf[c] IN
  /\ pc[c] = "flock"
  /\ \A t \in Stores \ {s} : ~(flocked[t] /\ lockH[t] = lockH[s])
  /\ flocked' = [flocked EXCEPT ![s] = TRUE]
  /\ pc' = [pc EXCEPT ![c] = "read"]
  /\ UNCHANGED <<fsVars, rlock, lockH, cur, pre, recs, tmpH, role, task, stage, local,
                 disk, budget, run, envVars, opsStarted, faults>>

\* The operation o returns or raises with outcome out: finally:
\* self._release_file_lock(), `with self._lock` is left, and the caller moves
\* its pipeline or command on.
FinishLeaky(c, o, out) ==
  LET s == StoreOf[c] IN
  /\ pc' = [pc EXCEPT ![c] = "idle"]
  /\ rlock' = [rlock EXCEPT ![s] = None]
  /\ lockH' = [lockH EXCEPT ![s] = IF out = "ok" THEN 0 ELSE lockH[s]]
  /\ flocked' = [flocked EXCEPT ![s] = IF out = "ok" THEN FALSE ELSE flocked[s]]
  /\ task' = [task EXCEPT ![c] = StageAfter(c, o, out)[1]]
  /\ stage' = [stage EXCEPT ![c] = StageAfter(c, o, out)[2]]
  /\ local' = [local EXCEPT ![c] = LocalAfter(c, o, out)]
  /\ cur' = [cur EXCEPT ![c] = NoOp]
  /\ pre' = [pre EXCEPT ![c] = <<>>]
  /\ recs' = [recs EXCEPT ![c] = <<>>]
  /\ tmpH' = [tmpH EXCEPT ![c] = 0]
  /\ UNCHANGED <<role, disk>>

Finish(c, o, out) ==
  LET s == StoreOf[c] IN
  /\ pc' = [pc EXCEPT ![c] = "idle"]
  /\ rlock' = [rlock EXCEPT ![s] = None]
  /\ lockH' = [lockH EXCEPT ![s] = 0]
  /\ flocked' = [flocked EXCEPT ![s] = FALSE]
  /\ task' = [task EXCEPT ![c] = StageAfter(c, o, out)[1]]
  /\ stage' = [stage EXCEPT ![c] = StageAfter(c, o, out)[2]]
  /\ local' = [local EXCEPT ![c] = LocalAfter(c, o, out)]
  /\ cur' = [cur EXCEPT ![c] = NoOp]
  /\ pre' = [pre EXCEPT ![c] = <<>>]
  /\ recs' = [recs EXCEPT ![c] = <<>>]
  /\ tmpH' = [tmpH EXCEPT ![c] = 0]
  /\ UNCHANGED <<role, disk>>

\* The part of an operation from _read_all_records to the call of
\* _write_all_records (which first validates every record).
Decide(c, opname, st, d) ==
  LET o == [op |-> opname, id |-> d.id, status |-> st] IN
  /\ pc[c] = "read"
  /\ IF d.out = "write" /\ \A i \in 1..Len(d.recs) : validate(d.recs[i])
     THEN /\ pc' = [pc EXCEPT ![c] = "open_tmp"]
          /\ cur' = [cur EXCEPT ![c] = o]
          /\ pre' = [pre EXCEPT ![c] = fileRecs]
          /\ recs' = [recs EXCEPT ![c] = d.recs]
          /\ UNCHANGED <<rlock, lockH, flocked, tmpH, role, task, stage, local, disk>>
     ELSE Finish(c, o, IF d.out = "write" THEN "invalid_status" ELSE d.out)
  /\ UNCHANGED <<fsVars, budget, run, envVars, opsStarted, faults>>

\* -------------------------------------------- operations of a free caller
AddRecord(c) ==
  \E id \in TaskIds :
    /\ task[c] = None
    /\ role[c] = "api"
    /\ Decide(c, "add_record", "todo", add_record(fileRecs, Stamp(NewRecord(id))))

\* record.validate() ahead of the lock: an invalid status raises at once.
AddInvalid(c) ==
  \E id \in TaskIds :
    /\ pc[c] = "idle"
    /\ task[c] = None
    /\ opsStarted < budget
    /\ ~validate([NewRecord(id) EXCEPT !.status = Bogus])
    /\ opsStarted' = opsStarted + 1
    /\ UNCHANGED <<fsVars, rlock, lockH, flocked, pc, cur, pre, recs, tmpH, role, task,
                   stage, local, disk, budget, run, envVars, faults>>

UpdateRecord(c) ==
  \E id \in TaskIds, st \in (VALID_STATUSES \cup {Bogus}) :
    /\ task[c] = None
    /\ role[c] = "api"
    /\ Decide(c, "update_record", st, update_record(fileRecs, id, [status |-> st]))

RemoveRecord(c) ==
  \E id \in TaskIds :
    /\ task[c] = None
    /\ role[c] = "api"
    /\ Decide(c, "remove_record", None, remove_record(fileRecs, id))

ClaimFirstTodo(c) ==
  /\ task[c] = None
  /\ role[c] # "cli"
  /\ Decide(c, "claim_first_todo", "planning", claim_first_todo(fileRecs))

ClaimTodoById(c) ==
  \E id \in TaskIds :
    /\ task[c] = None
    /\ role[c] # "cli"
    /\ Decide(c, "claim_todo_by_id", "planning", claim_todo_by_id(fileRecs, id))

\* ----------------------------------------------------- steps of a pipeline
\* A step of caller c outside the store: it changes what c holds and the disk.
LocalStep(c) ==
  /\ pc[c] = "idle"
  /\ UNCHANGED <<fsVars, rlock, lockH, flocked, pc, cur, pre, recs, tmpH, role,
                 budget, run, envVars, opsStarted>>

\* setup_stage up to its store call: the worktree, the sandbox of the
\* attempt, the port and the container
SetupArtifacts(c) ==
  /\ LocalStep(c)
  /\ stage[c] = "setup"
  /\ IF local[c].worktree_path = NoPath
     THEN /\ stage' = [stage EXCEPT ![c] = "failure"]
          /\ UNCHANGED <<local, disk>>
     ELSE /\ stage' = [stage EXCEPT ![c] = "setup_update"]
          /\ local' = [local EXCEPT ![c] = SetUp(local[c], c)]
          /\ disk' = disk \cup Artifacts(SetUp(local[c], c))
  /\ UNCHANGED <<task, faults>>

\* setup_stage: store.update_record(record.id, record.to_dict())
SetupUpdate(c) ==
  /\ stage[c] = "setup_update"
  /\ Decide(c, "setup_update", "building", update_record(fileRecs, task[c], local[c]))

\* success_stage: update_record(id, {"status": "review", "error_file": ""})
SuccessUpdate(c) ==
  /\ stage[c] = "execute"
  /\ Decide(c, "success_update", "review",
            update_record(fileRecs, task[c], [status |-> "review", error_file |-> NoPath]))

\* A stage raises TaskProcessingError (git, container or agent failed).
StageFail(c) ==
  /\ LocalStep(c)
  /\ stage[c] \in {"setup", "execute"}
  /\ stage' = [stage EXCEPT ![c] = "failure"]
  /\ UNCHANGED <<task, local, disk, faults>>

\* cleanup_task_containers(task_id): the containers of the task
ContainersOf(id) == {p \in disk : p[1] = "container" /\ p[2] = id}

\* queue/opencode/<task-id>/ and what lies below it
SandboxesOf(id) == {p \in disk : p[1] = "opencode" /\ p[2] = id}

\* The values cleanup_on_fail can have in the processor of worker c: a
\* worker of a cmd_run invocation has the flag of the invocation.
CleanupOnFailAlways(c) == {TRUE}

CleanupOnFail(c) == IF role[c] = "pool" THEN {run.cleanup_on_fail} ELSE BOOLEAN

\* What failure_stage removes: with cleanup_on_fail the containers of the
\* task and the worktree, each unless its removal fails (ContainerError,
\* GitRuntimeError: logged).
FailureCleanup(c, cleanup_on_fail, containers_ok, worktree_ok) ==
  (IF cleanup_on_fail /\ containers_ok THEN ContainersOf(task[c]) ELSE {})
  \cup (IF cleanup_on_fail /\ worktree_ok /\ local[c].worktree_path # NoPath
        THEN {local[c].worktree_path} ELSE {})

\* failure_stage up to its store call: the report is generated and written,
\* then the cleanup.  The path of the report travels in the record c holds.
FailureReportMasked(c) ==
  /\ LocalStep(c)
  /\ stage[c] = "failure"
  /\ \E cleanup_on_fail \in CleanupOnFail(c), containers_ok, worktree_ok \in BOOLEAN :
       LET error_file == error_path(task[c], opsStarted)
           gone == FailureCleanup(c, cleanup_on_fail, containers_ok, worktree_ok)
       IN /\ disk' = (disk \cup {error_file}) \ gone
          /\ local' = [local EXCEPT ![c].error_file =
                         IF cleanup_on_fail /\ ~(containers_ok /\ worktree_ok)
                         THEN NoPath ELSE error_file]
  /\ stage' = [stage EXCEPT ![c] = "failure_update"]
  /\ UNCHANGED <<task, faults>>

FailureReport(c) ==
  /\ LocalStep(c)
  /\ stage[c] = "failure"
  /\ \E cleanup_on_fail \in CleanupOnFail(c), containers_ok, worktree_ok \in BOOLEAN :
       LET error_file == error_path(task[c], opsStarted)
           gone == FailureCleanup(c, cleanup_on_fail, containers_ok, worktree_ok)
       IN /\ disk' = (disk \cup {error_file}) \ gone
          /\ local' = [local EXCEPT ![c].error_file = error_file]
  /\ stage' = [stage EXCEPT ![c] = "failure_update"]
  /\ UNCHANGED <<task, faults>>

\* write_error_report raises OSError: error_file = ""
FailureReportLost(c) ==
  /\ LocalStep(c)
  /\ stage[c] = "failure"
  /\ faults < MaxFaults
  /\ faults' = faults + 1
  /\ local' = [local EXCEPT ![c].error_file = NoPath]
  /\ stage' = [stage EXCEPT ![c] = "failure_update"]
  /\ UNCHANGED <<task, disk>>

\* generate_error_report raises: the call is outside every try of
\* failure_stage, so the exception leaves failure_stage and process_task.
FailureGenerateRaises(c) ==
  /\ LocalStep(c)
  /\ stage[c] = "failure"
  /\ faults < MaxFaults
  /\ faults' = faults + 1
  /\ task' = [task EXCEPT ![c] = None]
  /\ stage' = [stage EXCEPT ![c] = "raised"]
  /\ local' = [local EXCEPT ![c] = NoRec]
  /\ UNCHANGED disk

FailureUpdateAsReview(c) ==
  /\ stage[c] = "failure_update"
  /\ Decide(c, "failure_update", "review",
            update_record(fileRecs, task[c],
                          [status |-> "review", error_file |-> local[c].error_file]))

\* failure_stage: update_record(id, {"status": "failed", "error_file": ...})
FailureUpdate(c) ==
  /\ stage[c] = "failure_update"
  /\ Decide(c, "failure_update", "failed",
            update_record(fileRecs, task[c],
                          [status |-> "failed", error_file |-> local[c].error_file]))

\* ------------------------------------------------------ steps of a command
\* get_record of the command cmd for the record id
GetRecord(c, cmd) ==
  \E id \in TaskIds :
    /\ task[c] = None
    /\ role[c] = "cli"
    /\ Decide(c, cmd, None, get_record(fileRecs, id))

\* cmd_cancel: update_record(task_id, {"status": "cancelled"})
CancelUpdate(c) ==
  /\ stage[c] = "cancel_update"
  /\ Decide(c, "cancel_update", "cancelled",
            update_record(fileRecs, task[c], [status |-> "cancelled"]))

\* cmd_retry: the handles are cleared and attempt is the attempt of the
\* record get_record returned, plus one
RetryPatch(r) ==
  [status |-> "todo",
   branch |-> IF r.branch # NoPath THEN r.branch ELSE derive_branch_name(r.id),
   worktree_path |-> r.worktree_path,
   container |-> NoPath, port |-> 0, session_id |-> NoPath, error_file |-> NoPath,
   opencode_attempt_dir |-> NoPath, opencode_config_dir |-> NoPath,
   opencode_data_dir |-> NoPath,
   attempt |-> r.attempt + 1]

RetryUpdate(c) ==
  /\ stage[c] = "retry_update"
  /\ Decide(c, "retry_update", "todo", update_record(fileRecs, task[c], RetryPatch(local[c])))

\* cmd_approve: update_record(task_id, {"status": "done"})
ApproveUpdate(c) ==
  /\ stage[c] = "approve_update"
  /\ Decide(c, "approve_update", "done", update_record(fileRecs, task[c], [status |-> "done"]))

\* cmd_remove: store.remove_record(task_id)
RemoveCall(c) ==
  /\ stage[c] = "remove_call"
  /\ Decide(c, "remove_call", None, remove_record(fileRecs, task[c]))

\* What _cleanup_task_artifacts deletes: the containers, the worktree
\* (unless keep_worktree), the report and queue/opencode/<task-id>/, each
\* unless its removal fails (logged).
CleanupRemoves(c, keep_worktree, containers_ok, worktree_ok, report_ok, sandboxes_ok) ==
  (IF containers_ok /\ local[c].container # NoPath THEN ContainersOf(task[c]) ELSE {})
  \cup (IF ~keep_worktree /\ worktree_ok THEN {local[c].worktree_path} ELSE {})
  \cup (IF report_ok THEN {local[c].error_file} ELSE {})
  \cup (IF sandboxes_ok THEN SandboxesOf(task[c]) ELSE {})

\* _cleanup_task_artifacts up to its store call
CleanupArtifactsAborting(c) ==
  /\ LocalStep(c)
  /\ stage[c] = "cleanup_artifacts"
  /\ \E keep_worktree, containers_ok, worktree_ok, report_ok, sandboxes_ok \in BOOLEAN :
       /\ disk' = disk \ CleanupRemoves(c, keep_worktree, containers_ok, worktree_ok,
                                        report_ok, sandboxes_ok)
       /\ IF containers_ok /\ worktree_ok /\ report_ok /\ sandboxes_ok
          THEN /\ stage' = [stage EXCEPT ![c] = "cleanup_update"]
               /\ UNCHANGED <<task, local>>
          ELSE /\ stage' = [stage EXCEPT ![c] = None]
               /\ task' = [task EXCEPT ![c] = None]
               /\ local' = [local EXCEPT ![c] = NoRec]
  /\ UNCHANGED faults

CleanupArtifacts(c) ==
  /\ LocalStep(c)
  /\ stage[c] = "cleanup_artifacts"
  /\ \E keep_worktree, containers_ok, worktree_ok, report_ok, sandboxes_ok \in BOOLEAN :
       disk' = disk \ CleanupRemoves(c, keep_worktree, containers_ok, worktree_ok,
                                     report_ok, sandboxes_ok)
  /\ stage' = [stage EXCEPT ![c] = "cleanup_update"]
  /\ UNCHANGED <<task, local, faults>>

CleanupPatch ==
  [branch |-> NoPath, worktree_path |-> NoPath, container |-> NoPath, port |-> 0,
   session_id |-> NoPath, error_file |-> NoPath, opencode_attempt_dir |-> NoPath,
   opencode_config_dir |-> NoPath, opencode_data_dir |-> NoPath]

CleanupUpdate(c) ==
  /\ stage[c] = "cleanup_update"
  /\ Decide(c, "cleanup_update", None, update_record(fileRecs, task[c], CleanupPatch))

\* ------------------------------------------------------ cmd_run's loop
\* The worker slots of the invocation: the loop claims for c1, then for c2.
Slots == {c \in Callers : role[c] = "pool"}

\* A claim raised: the exception leaves the loop (except Exception: return 1).
ClaimRaised == \E c \in Slots : stage[c] = "claim_raised"

\* for _ in range(max_parallel): a claim returned None (break) or every
\* slot has been claimed for.
ClaimLoopOverEager == ~ClaimRaised /\ \E c \in Slots : stage[c] # None

ClaimLoopOver ==
  /\ ~ClaimRaised
  /\ \/ \E c \in Slots : stage[c] = "absent"
     \/ \A c \in Slots : stage[c] # None

\* A store call starts: a call of the loop in its turn, a call of a
\* pipeline, or a call of another process.
RunnerAcquire(c) ==
  LET Before == IF c = "c2" THEN {"c1"} \cap Slots ELSE {}
      MayClaim ==
        /\ run.exit = -1
        /\ task[c] = None
        /\ stage[c] = None
        /\ ~ClaimRaised
        /\ \A d \in Before : stage[d] = "claimed"
      MayGetExisting ==
        /\ run.exit = -1
        /\ run.mode = "id"
        /\ task[c] = None
        /\ stage[c] = "absent"
  IN /\ role[c] = "pool" => (task[c] # None \/ MayClaim \/ MayGetExisting)
     /\ AcquireOpen(c)

\* claimed = cli_instance.store.claim_first_todo()
RunnerClaimFirst(c) ==
  /\ role[c] = "pool"
  /\ run.mode \in {"pass", "poll"}
  /\ stage[c] = None
  /\ ClaimFirstTodo(c)

\* claimed = cli_instance.store.claim_todo_by_id(run_task_id)
RunnerClaimById(c) ==
  /\ role[c] = "pool"
  /\ run.mode = "id"
  /\ task[c] = None
  /\ stage[c] = None
  /\ Decide(c, "claim_todo_by_id", "planning", claim_todo_by_id(fileRecs, run.id))

\* existing = cli_instance.store.get_record(run_task_id)
RunnerGetExisting(c) ==
  /\ role[c] = "pool"
  /\ run.mode = "id"
  /\ task[c] = None
  /\ stage[c] = "absent"
  /\ Decide(c, "get_existing", None, get_record(fileRecs, run.id))

\* executor.submit(processor.process_task, task)
Dispatch(c) ==
  /\ LocalStep(c)
  /\ role[c] = "pool"
  /\ run.exit = -1
  /\ stage[c] = "claimed"
  /\ ClaimLoopOver
  /\ stage' = [stage EXCEPT ![c] = "setup"]
  /\ UNCHANGED <<task, local, disk, faults>>

\* Every future of the iteration has completed (or nothing was claimed).
IterationOver ==
  /\ ClaimLoopOver
  /\ \A c \in Slots :
       /\ pc[c] = "idle"
       /\ task[c] = None
       /\ stage[c] \in {None, "absent", "returned", "raised"}

\* _process_tasks_parallel: a future counts as failed when its result has
\* status failed or when it raised.
failed_count ==
  Cardinality({c \in Slots :
                 \/ stage[c] = "raised"
                 \/ stage[c] = "returned" /\ local[c].status = "failed"})

\* The value cmd_run returns once it can return.
ExitCode ==
  IF ClaimRaised THEN {1}
  ELSE IF run.mode = "id"
  THEN (IF \E c \in Slots : stage[c] = "not_claimable" THEN {1}
        ELSE IF \E c \in Slots : task[c] = None /\ stage[c] \in {"returned", "raised"}
        THEN {IF failed_count = 0 THEN 0 ELSE 1}
        ELSE {})
  ELSE IF run.mode = "pass" /\ IterationOver
  THEN {IF failed_count = 0 THEN 0 ELSE 1}
  ELSE {}

\* cmd_run returns
RunnerExit ==
  /\ run.exit = -1
  /\ \A c \in Slots : pc[c] = "idle"
  /\ \E code \in ExitCode : run' = [run EXCEPT !.exit = code]
  /\ UNCHANGED <<fsVars, rlock, lockH, flocked, pc, cur, pre, recs, tmpH, role, task,
                 stage, local, disk, budget, opsStarted, faults, envVars>>

\* Polling: time.sleep(poll_interval), then the next iteration of the loop
NextIteration ==
  /\ run.mode = "poll"
  /\ run.exit = -1
  /\ IterationOver
  /\ stage' = [c \in Callers |-> IF c \in Slots THEN None ELSE stage[c]]
  /\ local' = [c \in Callers |-> IF c \in Slots THEN NoRec ELSE local[c]]
  /\ UNCHANGED <<fsVars, rlock, lockH, flocked, pc, cur, pre, recs, tmpH, role, task,
                 disk, budget, run, envVars, opsStarted, faults>>

\* ------------------------------------------------- _write_all_records
\* Inode numbers that a path names or an open handle refers to; the file
\* system hands out the lowest number that is not in use.
InUse ==
  {tasksIno, tmpIno} \cup {lockH[s] : s \in Stores} \cup {tmpH[c] : c \in Callers}

FreshIno == CHOOSE n \in 1..(Cardinality(InUse) + 1) : n \notin InUse

\* open(temp_file, "w"): creates the temp path or truncates the inode it names
OpenTmp(c) ==
  /\ pc[c] = "open_tmp"
  /\ tmpIno' = IF tmpIno = 0 THEN FreshIno ELSE tmpIno
  /\ tmpRecs' = <<>>
  /\ tmpH' = [tmpH EXCEPT ![c] = tmpIno']
  /\ pc' = [pc EXCEPT ![c] = "write_tmp"]
  /\ UNCHANGED <<fileRecs, tasksIno, rlock, lockH, flocked, cur, pre, recs, role, task,
                 stage, local, disk, budget, run, envVars, opsStarted, faults>>

\* f.write(line + "\n") for every record, flushed when the `with` closes:
\* the lines reach offset 0 of the inode behind c's temp handle.
WriteTmp(c) ==
  /\ pc[c] = "write_tmp"
  /\ (IF tmpH[c] = tmpIno
      THEN /\ tmpRecs' \in Overlays(tmpRecs, recs[c])
           /\ UNCHANGED fileRecs
      ELSE IF tmpH[c] = tasksIno
      THEN /\ fileRecs' \in Overlays(fileRecs, recs[c])
           /\ UNCHANGED tmpRecs
      ELSE UNCHANGED <<fileRecs, tmpRecs>>)
  /\ pc' = [pc EXCEPT ![c] = "rename"]
  /\ UNCHANGED <<tasksIno, tmpIno, rlock, lockH, flocked, cur, pre, recs, tmpH,
                 role, task, stage, local, disk, budget, run, envVars, opsStarted, faults>>

\* The write raises part-way (disk full): except: unlink the temp path, raise
WriteFail(c) ==
  /\ pc[c] = "write_tmp"
  /\ faults < MaxFaults
  /\ \E k \in 0..(Len(recs[c]) - 1) :
       IF tmpH[c] = tasksIno
       THEN fileRecs' \in Overlays(fileRecs, SubSeq(recs[c], 1, k))
       ELSE UNCHANGED fileRecs
  /\ tmpIno' = 0
  /\ tmpRecs' = <<>>
  /\ faults' = faults + 1
  /\ Finish(c, cur[c], "io_error")
  /\ UNCHANGED <<tasksIno, budget, run, envVars, opsStarted>>

\* temp_file.replace(self.tasks_file)
Rename(c) ==
  /\ pc[c] = "rename"
  /\ IF tmpIno = 0
     THEN /\ Finish(c, cur[c], "io_error")
          /\ UNCHANGED fsVars
     ELSE /\ tasksIno' = tmpIno
          /\ fileRecs' = tmpRecs
          /\ tmpIno' = 0
          /\ tmpRecs' = <<>>
          /\ Finish(c, cur[c], "ok")
  /\ UNCHANGED <<budget, run, envVars, opsStarted, faults>>

\* The process is killed after the temp file was written and before the
\* rename: every thread of the process ends, the kernel drops its locks, and
\* the process is started again later with a new QueueStore on the same file.
KillBeforeRename(c) ==
  LET s == StoreOf[c]
      dying == {d \in Callers : StoreOf[d] = s} IN
  /\ pc[c] = "rename"
  /\ faults < MaxFaults
  /\ faults' = faults + 1
  /\ pc' = [d \in Callers |-> IF d \in dying THEN "idle" ELSE pc[d]]
  /\ rlock' = [rlock EXCEPT ![s] = None]
  /\ lockH' = [lockH EXCEPT ![s] = 0]
  /\ flocked' = [flocked EXCEPT ![s] = FALSE]
  /\ tmpH' = [d \in Callers |-> IF d \in dying THEN 0 ELSE tmpH[d]]
  /\ task' = [d \in Callers |-> IF d \in dying THEN None ELSE task[d]]
  /\ stage' = [d \in Callers |-> IF d \in dying THEN None ELSE stage[d]]
  /\ local' = [d \in Callers |-> IF d \in dying THEN NoRec ELSE local[d]]
  /\ cur' = [d \in Callers |-> IF d \in dying THEN NoOp ELSE cur[d]]
  /\ pre' = [d \in Callers |-> IF d \in dying THEN <<>> ELSE pre[d]]
  /\ recs' = [d \in Callers |-> IF d \in dying THEN <<>> ELSE recs[d]]
  /\ UNCHANGED <<fsVars, role, disk, budget, run, envVars, opsStarted>>

\* ---------------------------------------------------------- specification
\* Two single-threaded processes on the same record file.
Procs == {"c1", "c3"}

Next ==
  \E c \in Procs :
    \/ AcquireOpen(c)
    \/ Flock(c)
    \/ AddRecord(c)
    \/ AddInvalid(c)
    \/ UpdateRecord(c)
    \/ RemoveRecord(c)
    \/ ClaimFirstTodo(c)
    \/ ClaimTodoById(c)
    \/ OpenTmp(c)
    \/ WriteTmp(c)
    \/ Rename(c)

Spec == Init /\ [][Next]_vars

\* The same with write failures and kills.
SpecFault ==
  /\ Init
  /\ [][\E c \in Procs :
           \/ AcquireOpen(c)
           \/ Flock(c)
           \/ AddRecord(c)
           \/ AddInvalid(c)
           \/ UpdateRecord(c)
           \/ RemoveRecord(c)
           \/ ClaimFirstTodo(c)
           \/ ClaimTodoById(c)
           \/ OpenTmp(c)
           \/ WriteTmp(c)
           \/ WriteFail(c)
           \/ Rename(c)
           \/ KillBeforeRename(c)]_vars

\* The two processes add, update, claim and remove, with one more operation.
InitDeep ==
  /\ fileRecs \in {f \in InitFiles : Len(f) = 2}
  /\ role = [c \in Callers |-> "api"]
  /\ budget = MaxOps + 1
  /\ InitNoRun
  /\ InitRest

SpecDeep ==
  /\ InitDeep
  /\ [][\E c \in Procs :
           \/ AcquireOpen(c)
           \/ Flock(c)
           \/ AddRecord(c)
           \/ UpdateRecord(c)
           \/ RemoveRecord(c)
           \/ ClaimFirstTodo(c)
           \/ OpenTmp(c)
           \/ WriteTmp(c)
           \/ Rename(c)]_vars

\* The two processes patch the status of records and do nothing else.
SpecUpdate ==
  /\ Init
  /\ [][\E c \in Procs :
           \/ AcquireOpen(c)
           \/ Flock(c)
           \/ UpdateRecord(c)
           \/ OpenTmp(c)
           \/ WriteTmp(c)
           \/ Rename(c)]_vars

Workers == {"c1", "c2", "c3"}

\* Runner workers: two threads of one runner process and a second runner
\* process claim records and run their pipelines.
InitRun ==
  /\ fileRecs \in InitFiles
  /\ role = [c \in Callers |-> "runner"]
  /\ budget = MaxOps
  /\ InitNoRun
  /\ InitRest

SpecRun ==
  /\ InitRun
  /\ [][\E c \in Workers :
           \/ AcquireOpen(c)
           \/ Flock(c)
           \/ ClaimFirstTodo(c)
           \/ ClaimTodoById(c)
           \/ SetupArtifacts(c)
           \/ SetupUpdate(c)
           \/ StageFail(c)
           \/ SuccessUpdate(c)
           \/ FailureReport(c)
           \/ FailureUpdate(c)
           \/ OpenTmp(c)
           \/ WriteTmp(c)
           \/ Rename(c)]_vars

\* The same workers with failures inside the store's write and inside the
\* failure handler.
SpecRunFault ==
  /\ InitRun
  /\ [][\E c \in Workers :
           \/ AcquireOpen(c)
           \/ Flock(c)
           \/ ClaimFirstTodo(c)
           \/ ClaimTodoById(c)
           \/ SetupArtifacts(c)
           \/ SetupUpdate(c)
           \/ StageFail(c)
           \/ SuccessUpdate(c)
           \/ FailureReport(c)
           \/ FailureReportLost(c)
           \/ FailureGenerateRaises(c)
           \/ FailureUpdate(c)
           \/ OpenTmp(c)
           \/ WriteTmp(c)
           \/ WriteFail(c)
           \/ Rename(c)]_vars

\* Callers that invoke claim_first_todo and keep the record returned.
InitClaim ==
  /\ fileRecs \in {<<>>}
                   \cup {<<Rec("T1", s)>> : s \in {"todo", "done"}}
                   \cup {<<Rec("T1", s), Rec("T2", t)>> :
                           s \in {"todo", "done"}, t \in {"todo", "done"}}
  /\ role = [c \in Callers |-> "claimer"]
  /\ budget = MaxOps
  /\ InitNoRun
  /\ InitRest

SpecClaim ==
  /\ InitClaim
  /\ [][\E c \in Workers :
           \/ AcquireOpen(c)
           \/ Flock(c)
           \/ ClaimFirstTodo(c)
           \/ OpenTmp(c)
           \/ WriteTmp(c)
           \/ Rename(c)]_vars

\* Whole pipelines: the workers take records from a file of two todo
\* records, with one more operation.
InitPipe ==
  /\ fileRecs = <<Rec("T1", "todo"), Rec("T2", "todo")>>
  /\ role = [c \in Callers |-> "runner"]
  /\ budget = MaxOps + 1
  /\ InitNoRun
  /\ InitRest

SpecPipe ==
  /\ InitPipe
  /\ [][\E c \in Workers :
           \/ AcquireOpen(c)
           \/ Flock(c)
           \/ ClaimFirstTodo(c)
           \/ SetupArtifacts(c)
           \/ SetupUpdate(c)
           \/ StageFail(c)
           \/ SuccessUpdate(c)
           \/ FailureReport(c)
           \/ FailureUpdate(c)
           \/ OpenTmp(c)
           \/ WriteTmp(c)
           \/ Rename(c)]_vars

\* Operators and a runner: two processes that run commands of the CLI and
\* a runner process with one worker.
InitCli ==
  /\ fileRecs \in InitFiles
  /\ role = [c \in Callers |-> IF c \in {"c3", "c4"} THEN "cli" ELSE "runner"]
  /\ budget = MaxOps
  /\ InitNoRun
  /\ InitRest

SpecCli ==
  /\ InitCli
  /\ [][\E c \in {"c1", "c3", "c4"} :
           \/ AcquireOpen(c)
           \/ Flock(c)
           \/ \E cmd \in {"cmd_cancel", "cmd_retry", "cmd_approve", "cmd_remove",
                       "cmd_cleanup"} : GetRecord(c, cmd)
           \/ CancelUpdate(c)
           \/ RetryUpdate(c)
           \/ ApproveUpdate(c)
           \/ RemoveCall(c)
           \/ CleanupArtifacts(c)
           \/ CleanupUpdate(c)
           \/ ClaimFirstTodo(c)
           \/ SetupArtifacts(c)
           \/ SetupUpdate(c)
           \/ StageFail(c)
           \/ SuccessUpdate(c)
           \/ FailureReport(c)
           \/ FailureUpdate(c)
           \/ OpenTmp(c)
           \/ WriteTmp(c)
           \/ Rename(c)]_vars

\* Retries: two operators retry failed tasks while the runner claims them
\* and fails again.
InitRetry ==
  /\ fileRecs = <<Rec("T1", "failed")>>
  /\ role = [c \in Callers |-> IF c \in {"c3", "c4"} THEN "cli" ELSE "runner"]
  /\ budget = MaxOps + RetryDepth
  /\ InitNoRun
  /\ InitRest

SpecRetry ==
  /\ InitRetry
  /\ [][\E c \in {"c1", "c3", "c4"} :
           \/ AcquireOpen(c)
           \/ Flock(c)
           \/ GetRecord(c, "cmd_retry")
           \/ RetryUpdate(c)
           \/ ClaimFirstTodo(c)
           \/ StageFail(c)
           \/ FailureReport(c)
           \/ FailureUpdate(c)
           \/ OpenTmp(c)
           \/ WriteTmp(c)
           \/ Rename(c)]_vars

\* Cancel and cleanup: two operators cancel tasks and clean up after them
\* while the runner claims.
InitCleanup ==
  /\ fileRecs = <<Rec("T1", "failed"), Rec("T2", "todo")>>
  /\ role = [c \in Callers |-> IF c \in {"c3", "c4"} THEN "cli" ELSE "runner"]
  /\ budget = MaxOps + CleanupDepth
  /\ InitNoRun
  /\ InitRest

SpecCleanup ==
  /\ InitCleanup
  /\ [][\E c \in {"c1", "c3", "c4"} :
           \/ AcquireOpen(c)
           \/ Flock(c)
           \/ GetRecord(c, "cmd_cancel")
           \/ GetRecord(c, "cmd_cleanup")
           \/ CancelUpdate(c)
           \/ CleanupArtifacts(c)
           \/ CleanupUpdate(c)
           \/ ClaimFirstTodo(c)
           \/ OpenTmp(c)
           \/ WriteTmp(c)
           \/ Rename(c)]_vars

\* One cmd_run invocation, alone on the record file: run --id X or a single
\* pass with max_parallel 1 or 2.
RunArgs ==
  {[mode |-> m, id |-> i, max_parallel |-> n, cleanup_on_fail |-> f,
    session_id |-> <<"session", 1>>, exit |-> -1] :
     m \in {"id", "pass"}, i \in TaskIds \cup {None}, n \in 1..2, f \in BOOLEAN}

\* run --id processes [claimed]; the other modes claim up to max_parallel.
PoolOf(r) ==
  IF r.mode = "id" \/ r.max_parallel = 1 THEN {"c1"} ELSE {"c1", "c2"}

InitRunner ==
  /\ fileRecs \in InitFiles
  /\ run \in {r \in RunArgs : (r.mode = "id") = (r.id # None)}
  /\ role = [c \in Callers |-> IF c \in PoolOf(run) THEN "pool" ELSE "api"]
  /\ budget = MaxOps + PassDepth
  /\ InitRest

SpecRunner ==
  /\ InitRunner
  /\ [][\/ RunnerExit
         \/ \E c \in Slots :
              \/ RunnerAcquire(c)
              \/ Flock(c)
              \/ RunnerClaimFirst(c)
              \/ RunnerClaimById(c)
              \/ RunnerGetExisting(c)
              \/ Dispatch(c)
              \/ SetupArtifacts(c)
              \/ SetupUpdate(c)
              \/ StageFail(c)
              \/ SuccessUpdate(c)
              \/ FailureReport(c)
              \/ FailureUpdate(c)
              \/ OpenTmp(c)
              \/ WriteTmp(c)
              \/ Rename(c)]_vars

\* The same invocation with failures inside the store's write and inside
\* the failure handler.
SpecRunnerFault ==
  /\ InitRunner
  /\ [][\/ RunnerExit
         \/ \E c \in Slots :
              \/ RunnerAcquire(c)
              \/ Flock(c)
              \/ RunnerClaimFirst(c)
              \/ RunnerClaimById(c)
              \/ RunnerGetExisting(c)
              \/ Dispatch(c)
              \/ SetupArtifacts(c)
              \/ SetupUpdate(c)
              \/ StageFail(c)
              \/ SuccessUpdate(c)
              \/ FailureReport(c)
              \/ FailureReportLost(c)
              \/ FailureGenerateRaises(c)
              \/ FailureUpdate(c)
              \/ OpenTmp(c)
              \/ WriteTmp(c)
              \/ WriteFail(c)
              \/ Rename(c)]_vars

\* A single pass and an operator who cancels tasks meanwhile.
Operators == {"c3"}

InitRunnerCli ==
  /\ fileRecs \in {<<>>}
                   \cup {<<Rec("T1", s)>> : s \in {"todo", "done"}}
                   \cup {<<Rec("T1", s), Rec("T2", t)>> :
                           s \in {"todo", "done"}, t \in {"todo", "done"}}
  /\ run \in {r \in RunArgs : r.mode = "pass" /\ r.id = None}
  /\ role = [c \in Callers |->
              IF c \in PoolOf(run) THEN "pool" ELSE IF c \in Operators THEN "cli" ELSE "api"]
  /\ budget = MaxOps + 1
  /\ InitRest

SpecRunnerCli ==
  /\ InitRunnerCli
  /\ [][\/ RunnerExit
         \/ \E c \in Slots \cup Operators :
              \/ RunnerAcquire(c)
              \/ Flock(c)
              \/ RunnerClaimFirst(c)
              \/ Dispatch(c)
              \/ SetupArtifacts(c)
              \/ SetupUpdate(c)
              \/ StageFail(c)
              \/ SuccessUpdate(c)
              \/ FailureReport(c)
              \/ FailureUpdate(c)
              \/ GetRecord(c, "cmd_cancel")
              \/ CancelUpdate(c)
              \/ OpenTmp(c)
              \/ WriteTmp(c)
              \/ Rename(c)]_vars

\* =================================================================== claims
\* The status graph as the specification's table lists it.
\* Caller c commits its write: the rename succeeds.
Commits(c) == pc[c] = "rename" /\ pc'[c] = "idle" /\ tasksIno' # tasksIno

\* C1: when n callers have each invoked claim_first_todo on a file that held
\* k claimable records and all calls have returned, exactly min(n, k) calls
\* returned a record, the returned records are pairwise distinct, and each
\* of them is stored with status planning.
C1_AtomicClaim ==
  LET Returned == {c \in Callers : task[c] # None}
      k == Cardinality({i \in 1..Len(fileRecs) :
                          fileRecs[i].status \in {"todo", "planning"}})
  IN (\A c \in Callers : pc[c] = "idle") =>
       /\ Cardinality(Returned) = (IF opsStarted <= k THEN opsStarted ELSE k)
       /\ \A c \in Returned : RecOf(fileRecs, task[c]).status = "planning"
       /\ \A c, d \in Returned : c # d => task[c] # task[d]

\* The status graph as the specification's table lists it.
LegalPairs ==
  { <<"todo", "planning">>, <<"todo", "cancelled">>,
    <<"planning", "building">>, <<"planning", "failed">>, <<"planning", "cancelled">>,
    <<"building", "review">>, <<"building", "failed">>,
    <<"review", "done">>, <<"review", "cancelled">>,
    <<"failed", "todo">>, <<"failed", "cancelled">> }

C3_TerminalStatus ==
  [][\A id \in TaskIds :
       (/\ id \in Ids(fileRecs)
        /\ id \in Ids(fileRecs')
        /\ RecOf(fileRecs, id).status \in {"done", "cancelled"})
       => RecOf(fileRecs', id).status = RecOf(fileRecs, id).status]_vars

\* C4: at no time do two workers, threads of one runner or different runner
\* processes, run the pipeline of the same record.
C4_OnePipelinePerRecord ==
  \A c, d \in Callers : (c # d /\ task[c] # None) => task[d] # task[c]

\* C5: a write that commits changes no record other than the one its
\* operation is about, so the modifications of two operations on different
\* records are both in the file afterwards.
C5_NoLostUpdate ==
  [][\A c \in Callers :
       Commits(c) =>
         \A id \in TaskIds \ {cur[c].id} : RecOf(fileRecs', id) = RecOf(fileRecs, id)]_vars

C7_CrashSafety ==
  [][\A c \in Callers :
       (pc[c] = "rename" /\ pc'[c] = "idle" /\ faults' = faults + 1) => fileRecs' = pre[c]]_vars

\* C8: an operation that fails (rejected at its decision, rejected for an
\* invalid status ahead of the lock, or failing in its write) leaves the
\* record file with the contents it had before the call.
C8_FailedOperation ==
  [][\A c \in Callers :
       /\ (pc[c] = "read" /\ pc'[c] = "idle") => fileRecs' = fileRecs
       /\ (pc' = pc /\ opsStarted' # opsStarted) => fileRecs' = fileRecs
       /\ (/\ pc'[c] = "idle"
           /\ tasksIno' = tasksIno
           /\ \/ pc[c] = "write_tmp"
              \/ pc[c] = "rename" /\ faults' = faults)
          => fileRecs' = pre[c]]_vars

\* C9: no two records of the record file have the same id.
C9_UniqueIds ==
  \A i, j \in 1..Len(fileRecs) :
    (i < j /\ fileRecs[i].id \in TaskIds) => fileRecs[i].id # fileRecs[j].id

\* C10: no change of the record file reorders the records that remain:
\* two records present before and after keep their relative order.
C10_OrderPreserved ==
  [][\A x, y \in TaskIds :
       (/\ {x, y} \subseteq Ids(fileRecs)
        /\ {x, y} \subseteq Ids(fileRecs')
        /\ IndexOf(fileRecs, x) < IndexOf(fileRecs, y))
       => IndexOf(fileRecs', x) < IndexOf(fileRecs', y)]_vars

\* C11: when update_record returns successfully the record file holds the
\* patched record, and the record stored under an id stays as it is until
\* an operation on that id commits a write, so every operation that starts
\* after the return observes the patch.
C11_UpdateVisible ==
  [][/\ \A c \in Callers :
          (Commits(c) /\ cur[c].op = "update_record")
          => RecOf(fileRecs', cur[c].id) = RecOf(recs[c], cur[c].id)
     /\ \A id \in TaskIds :
          RecOf(fileRecs', id) # RecOf(fileRecs, id)
          => \E c \in Callers : Commits(c) /\ cur[c].id = id]_vars

\* C14: no step takes a record out of the record file while the status
\* stored for it is planning or building.
C14_NoRemoveWhileActive ==
  [][\A id \in TaskIds :
       (id \in Ids(fileRecs) /\ RecOf(fileRecs, id).status \in {"planning", "building"})
       => id \in Ids(fileRecs')]_vars

\* C15: when the record of a cancel command is stored with status planning
\* or building, the command's update is rejected and the file stays as it is.
C15_CancelActiveRejected ==
  [][\A c \in Callers :
       (/\ pc[c] = "read"
        /\ pc'[c] # "read"
        /\ stage[c] = "cancel_update"
        /\ RecOf(fileRecs, task[c]).status \in {"planning", "building"})
       => (pc'[c] = "idle" /\ fileRecs' = fileRecs)]_vars

\* C12: when a retry's update commits on a record stored as failed, the
\* stored record becomes todo with container, session_id, error_file and the
\* opencode_* fields empty and port 0, with attempt greater than the attempt
\* stored just before, and with branch and worktree_path as stored before.
C12_RetryClearsHandles ==
  [][\A c \in Callers :
       LET old == RecOf(fileRecs, cur[c].id)
           new == RecOf(fileRecs', cur[c].id)
       IN (Commits(c) /\ cur[c].op = "retry_update" /\ old.status = "failed")
          => /\ new.status = "todo"
             /\ new.container = NoPath /\ new.session_id = NoPath
             /\ new.error_file = NoPath /\ new.port = 0
             /\ new.opencode_attempt_dir = NoPath
             /\ new.opencode_config_dir = NoPath
             /\ new.opencode_data_dir = NoPath
             /\ new.attempt > old.attempt
             /\ new.branch = old.branch
             /\ new.worktree_path = old.worktree_path]_vars

\* C13: no step lowers the attempt stored for a record.
C13_AttemptMonotone ==
  [][\A id \in TaskIds :
       (id \in Ids(fileRecs) /\ id \in Ids(fileRecs'))
       => RecOf(fileRecs', id).attempt >= RecOf(fileRecs, id).attempt]_vars

\* C16: every record stored with status building or review has a container,
\* a port, a worktree path and the two sandbox directories set, and the
\* worktree and the two sandbox directories exist on disk.
C16_ActiveHasArtifacts ==
  \A i \in 1..Len(fileRecs) :
    LET r == fileRecs[i] IN
    r.status \in {"building", "review"}
    => /\ r.container # NoPath
       /\ r.port # 0
       /\ r.worktree_path # NoPath
       /\ r.opencode_config_dir # NoPath
       /\ r.opencode_data_dir # NoPath
       /\ {r.worktree_path, r.opencode_config_dir, r.opencode_data_dir} \subseteq disk

\* C18: when the pipeline of a worker ends, the record it had claimed is
\* stored with status review or failed, so no claimed record is left in
\* planning or building (or in any other status) by a pipeline that is over.
C18_PipelineEndsParked ==
  [][\A c \in Callers :
       (role[c] = "runner" /\ task[c] # None /\ task'[c] = None)
       => RecOf(fileRecs', task[c]).status \in {"review", "failed"}]_vars

\* C19: when the success stage's update commits, the record is stored with
\* status review and error_file empty, and its container, port, worktree
\* path and three sandbox paths are the ones the worker's setup persisted
\* with the planning -> building transition.
C19_SuccessKeepsHandles ==
  [][\A c \in Callers :
       LET new == RecOf(fileRecs', cur[c].id)
           set == local[c]
       IN (Commits(c) /\ cur[c].op = "success_update")
          => /\ new.status = "review"
             /\ new.error_file = NoPath
             /\ new.container = set.container
             /\ new.port = set.port
             /\ new.worktree_path = set.worktree_path
             /\ new.opencode_attempt_dir = set.opencode_attempt_dir
             /\ new.opencode_config_dir = set.opencode_config_dir
             /\ new.opencode_data_dir = set.opencode_data_dir]_vars

\* C20: a pipeline that has entered the failure handler ends with the
\* handler returning, whatever failed inside the handler.
C20_FailureHandlerReturns ==
  [][\A c \in Callers :
       (/\ stage[c] \in {"failure", "failure_update"}
        /\ task[c] # None
        /\ task'[c] = None)
       => stage'[c] = "returned"]_vars

\* C17: every record stored with status failed has an error_file that names
\* a report existing on disk, or an empty error_file (what the failure
\* handler stores when writing the report failed).
C17_FailedHasReport ==
  \A i \in 1..Len(fileRecs) :
    fileRecs[i].status = "failed"
    => (fileRecs[i].error_file = NoPath \/ fileRecs[i].error_file \in disk)

\* C21: with cleanup_on_fail set, failure handling whose container cleanup
\* or worktree removal failed still goes on to its store update with the
\* report of the stage error written, and ends with the record stored as
\* failed and error_file naming that report.
C21_CleanupFailureIgnored ==
  [][\A c \in Slots :
       /\ (/\ stage[c] = "failure"
           /\ stage'[c] # "failure"
           /\ run.cleanup_on_fail
           /\ (\/ \E p \in disk : p[1] = "container" /\ p[2] = (task[c])
               \/ (local[c]).worktree_path \in disk)')
          => /\ stage'[c] = "failure_update"
             /\ task'[c] = task[c]
             /\ local'[c].error_file = error_path(task[c], opsStarted)
             /\ local'[c].error_file \in disk'
       /\ (/\ stage[c] = "failure_update"
           /\ task'[c] = None
           /\ run.cleanup_on_fail
           /\ (\/ \E p \in disk : p[1] = "container" /\ p[2] = (task[c])
               \/ (local[c]).worktree_path \in disk))
          => /\ RecOf(fileRecs', task[c]).status = "failed"
             /\ RecOf(fileRecs', task[c]).error_file = local[c].error_file
             /\ local[c].error_file \in disk']_vars

\* A pipeline of an invocation with cleanup_on_fail has failed after its
\* setup, the removal of the worktree failed, and the record is stored as
\* failed with its report.
C21_Witness ==
  \E c \in Slots :
    /\ run.cleanup_on_fail
    /\ stage[c] = "returned"
    /\ local[c].status = "failed"
    /\ local[c].container # NoPath
    /\ local[c].worktree_path \in disk
    /\ RecOf(fileRecs, local[c].id).status = "failed"
    /\ RecOf(fileRecs, local[c].id).error_file \in disk

Processed == {c \in Slots : task[c] = None /\ stage[c] \in {"returned", "raised"}}

\* C23: when an invocation in single-id or single-pass mode returns after
\* its claims, it returns 0 exactly when every task it processed ended with
\* its pipeline finished and its record in review, and non-zero exactly when
\* some processed task ended failed or did not complete its pipeline.
C23_ExitCodeTellsOutcome ==
  [][(/\ run.exit = -1
      /\ run'.exit # -1
      /\ ~ClaimRaised
      /\ \A c \in Slots : stage[c] # "not_claimable")
     => ((run'.exit = 0) <=>
           \A c \in Processed :
             stage[c] = "returned" /\ RecOf(fileRecs, local[c].id).status = "review")]_vars

\* C24: run --id X, when X is not in the record file or is stored with a
\* status other than todo: the claim returns without a record and without
\* a write, no pipeline is started, nothing the invocation does afterwards
\* changes the file, and cmd_run returns 1.
C24_RunIdFailsFast ==
  [][\A c \in Slots :
       run.mode = "id" =>
         /\ (/\ pc[c] = "read"
             /\ pc'[c] # "read"
             /\ stage[c] = None
             /\ RecOf(fileRecs, run.id).status # "todo")
            => /\ pc'[c] = "idle"
               /\ task'[c] = None
               /\ stage'[c] = "absent"
               /\ fileRecs' = fileRecs
         /\ stage[c] \in {"absent", "not_claimable"}
            => /\ fileRecs' = fileRecs
               /\ task'[c] = None
               /\ stage'[c] \in {"absent", "not_claimable"}
               /\ run'.exit \in {-1, 1}
         /\ (run'.exit # run.exit /\ stage[c] = "not_claimable") => run'.exit = 1]_vars

\* run --id X has returned 1 for a record that is stored in review.
C24_Witness ==
  /\ run.mode = "id"
  /\ run.exit = 1
  /\ stage["c1"] = "not_claimable"
  /\ task["c1"] = None
  /\ RecOf(fileRecs, run.id).status = "review"

\* C25: a single pass alone on the record file claims min(max_parallel, k)
\* of the k todo records: every claim takes the first todo record in file
\* order, a record leaves todo only by such a claim, every claimed record
\* gets one pipeline (started from the claim and from nothing else, no two
\* workers on one record), and when cmd_run returns either max_parallel
\* pipelines have run or no record is left in todo.
C25_SinglePassClaims ==
  /\ [](run.mode = "pass" =>
          /\ \A c, d \in Slots : (c # d /\ task[c] # None) => task[c] # task[d]
          /\ run.exit # -1 =>
               /\ \A c \in Slots : task[c] = None /\ stage[c] # "claimed"
               /\ Cardinality(Processed) <= run.max_parallel
               /\ \/ Cardinality(Processed) = run.max_parallel
                  \/ \A i \in 1..Len(fileRecs) : fileRecs[i].status # "todo")
  /\ [][run.mode = "pass" =>
          /\ \A c \in Slots :
               /\ (Commits(c) /\ cur[c].op = "claim_first_todo")
                  => /\ cur[c].id = fileRecs[FirstTodoIndex(fileRecs)].id
                     /\ RecOf(fileRecs', cur[c].id).status = "planning"
                     /\ task'[c] = cur[c].id
                     /\ stage'[c] = "claimed"
               /\ (stage[c] = "claimed" /\ stage'[c] # "claimed")
                  => (stage'[c] = "setup" /\ task'[c] = task[c])
               /\ (stage'[c] = "setup" /\ stage[c] # "setup") => stage[c] = "claimed"
          /\ \A id \in TaskIds :
               (RecOf(fileRecs, id).status = "todo" /\ RecOf(fileRecs', id).status # "todo")
               => \E c \in Slots :
                    Commits(c) /\ cur[c].op = "claim_first_todo" /\ cur[c].id = id]_vars

\* A single pass with max_parallel 1 has returned after one pipeline, and
\* the second todo record is still in todo.
C25_Witness ==
  /\ run.mode = "pass"
  /\ run.max_parallel = 1
  /\ run.exit # -1
  /\ Cardinality(Processed) = 1
  /\ Len(fileRecs) = 2
  /\ fileRecs[1].status # "todo"
  /\ fileRecs[2].status = "todo"

\* C27: when the pipeline of a worker of an invocation ends, the record it
\* processed is stored with session_id equal to the invocation's session
\* identifier.
C27_SessionStamped ==
  [][\A c \in Slots :
       (task[c] # None /\ task'[c] = None)
       => RecOf(fileRecs', task[c]).session_id = run.session_id]_vars

\* C28: an exception that ends the pipeline of one task does not end the
\* invocation and leaves the other workers as they are; the task gets a
\* failure outcome of its own (its record stored as failed, with a report);
\* and cmd_run returns from an iteration only when every pipeline of the
\* iteration has ended.
C28_PipelineExceptionContained ==
  [][/\ \A c \in Slots :
          (task[c] # None /\ task'[c] = None /\ stage'[c] = "raised")
          => /\ run'.exit = run.exit
             /\ \A d \in Slots \ {c} : task'[d] = task[d] /\ stage'[d] = stage[d]
             /\ RecOf(fileRecs', task[c]).status = "failed"
             /\ \E p \in disk' : p[1] = "errors" /\ p[2] = task[c]
     /\ (run'.exit # run.exit /\ ~ClaimRaised) => \A c \in Slots : task[c] = None]_vars

\* -------------------------------------------------- lines with other fields
\* A line written by another version or tool: a JSON object carrying, next
\* to the fields of TaskRecord, one the dataclass does not have.
ForeignField == "note"

ForeignFiles ==
  LET Foreign(r) ==
        [f \in DOMAIN r \cup {ForeignField} |->
           IF f = ForeignField THEN <<"kept">> ELSE r[f]]
  IN {<<Foreign(Rec("T1", s))>> : s \in {"todo", "failed"}}
     \cup {<<Rec("T1", "todo"), Foreign(Rec("T2", "todo"))>>}

\* Store operations of two processes on a file that may hold such a line.
InitForeign ==
  /\ fileRecs \in InitFiles \cup ForeignFiles
  /\ role = [c \in Callers |-> "api"]
  /\ budget = MaxOps
  /\ InitNoRun
  /\ InitRest

SpecForeign == InitForeign /\ [][Next]_vars

\* C29: a line carrying a field the store does not know is still readable
\* (an operation that has the lock and reads a file of JSON lines does not
\* end with a read error, whatever it was called with), and every rewrite
\* of the file re-emits the field on that record with its value.
C29_UnknownFieldsKept ==
  /\ [](\A c \in Callers :
          (/\ pc[c] = "read"
           /\ \A i \in 1..Len(fileRecs) : fileRecs[i] # Garbled
           /\ \E i \in 1..Len(fileRecs) : ForeignField \in DOMAIN fileRecs[i]) =>
            /\ claim_first_todo(fileRecs).out # "read_error"
            /\ \A id \in TaskIds :
                 /\ get_record(fileRecs, id).out # "read_error"
                 /\ claim_todo_by_id(fileRecs, id).out # "read_error"
                 /\ remove_record(fileRecs, id).out # "read_error"
                 /\ add_record(fileRecs, NewRecord(id)).out # "read_error"
                 /\ update_record(fileRecs, id, [port |-> 0]).out # "read_error")
  /\ [][\A i \in 1..Len(fileRecs) :
          (fileRecs[i] # Garbled /\ ForeignField \in DOMAIN fileRecs[i]) =>
            \A j \in 1..Len(fileRecs') :
              (fileRecs'[j] # Garbled /\ fileRecs'[j].id = fileRecs[i].id) =>
                /\ ForeignField \in DOMAIN fileRecs'[j]
                /\ fileRecs'[j][ForeignField] = fileRecs[i][ForeignField]]_vars

\* -------------------------------------------------- taskq cleanup, alone
\* One operator runs taskq cleanup --id X again and again on a file nobody
\* else touches.  The records come from every path into done and cancelled:
\* approved or cancelled after review (set up, artifacts on disk), cancelled
\* after a failure (a report on disk), cancelled before any pipeline.
Parked(id, st) == [Rec(id, "review") EXCEPT !.status = st]

InitCleanupAlone ==
  /\ LET GaveUp(id) == [Rec(id, "failed") EXCEPT !.status = "cancelled"]
     IN fileRecs \in {<<Parked("T1", s)>> : s \in {"review", "done", "cancelled"}}
                     \cup {<<GaveUp("T1")>>, <<Rec("T1", "cancelled")>>}
                     \cup {<<Parked("T1", s), r>> :
                             s \in {"done", "cancelled"},
                             r \in {Parked("T2", "done"), GaveUp("T2")}}
  /\ role = [c \in Callers |-> IF c \in Operators THEN "cli" ELSE "api"]
  /\ budget = MaxOps + CleanupDepth
  /\ InitNoRun
  /\ InitRest

SpecCleanupAlone ==
  /\ InitCleanupAlone
  /\ [][\E c \in Operators :
           \/ AcquireOpen(c)
           \/ Flock(c)
           \/ GetRecord(c, "cmd_cleanup")
           \/ CleanupArtifacts(c)
           \/ CleanupUpdate(c)
           \/ OpenTmp(c)
           \/ WriteTmp(c)
           \/ Rename(c)]_vars

\* C30: cleanup of a done or cancelled record goes from the removals to the
\* store update whichever removal failed, the update decides to write, and
\* the write stores the record with branch, worktree_path, container,
\* session_id, error_file and the opencode_* fields empty, port 0 and the
\* status it had; no other record changes.
C30_CleanupClearsDespiteFailures ==
  [][\A c \in Operators :
       /\ (stage[c] = "cleanup_artifacts" /\ stage'[c] # "cleanup_artifacts") =>
            /\ stage'[c] = "cleanup_update"
            /\ task'[c] = task[c]
            /\ fileRecs' = fileRecs
       /\ (stage[c] = "cleanup_update" /\ pc[c] = "read" /\ pc'[c] # "read") =>
            /\ pc'[c] = "open_tmp"
            /\ cur'[c].id = task[c]
       /\ (Commits(c) /\ cur[c].op = "cleanup_update") =>
            LET old == RecOf(fileRecs, cur[c].id)
                new == RecOf(fileRecs', cur[c].id)
            IN /\ old.status \in {"done", "cancelled"}
               /\ new.status = old.status
               /\ new.attempt = old.attempt
               /\ (\A f \in DOMAIN CleanupPatch : new[f] = CleanupPatch[f])
               /\ \A o \in Ids(fileRecs) \ {cur[c].id} :
                    RecOf(fileRecs', o) = RecOf(fileRecs, o)
               /\ stage'[c] = None /\ task'[c] = None]_vars

\* A cleanup has ended with the record cleared although the removal of its
\* containers or of its sandboxes failed: they are still on disk.
C30_Witness ==
  \E id \in TaskIds :
    /\ (\A c \in Callers : pc[c] = "idle")
    /\ RecOf(fileRecs, id).status \in {"done", "cancelled"}
    /\ (\A f \in DOMAIN CleanupPatch : (RecOf(fileRecs, id))[f] = CleanupPatch[f])
    /\ ContainersOf(id) \cup SandboxesOf(id) # {}

\* ------------------------------------------------------------ polling
\* run --poll with max_parallel 1, and another process that adds tasks while
\* the runner is running.  The runner's store calls are not counted (it
\* polls for ever); the other process starts at most MaxOps operations.
InitPoll ==
  /\ fileRecs \in {<<>>, <<Rec("T1", "todo")>>, <<Rec("T1", "review")>>}
  /\ run = ([mode |-> "poll", id |-> None, max_parallel |-> 1, cleanup_on_fail |-> FALSE,
             session_id |-> <<"session", 1>>, exit |-> -1])
  /\ role = [c \in Callers |-> IF c \in PoolOf(run) THEN "pool" ELSE "api"]
  /\ budget = MaxOps
  /\ InitRest

\* A step of the runner's threads.
RunnerStep ==
  \E c \in Slots :
    \/ RunnerAcquire(c)
    \/ Flock(c)
    \/ RunnerClaimFirst(c)
    \/ Dispatch(c)
    \/ SetupArtifacts(c)
    \/ SetupUpdate(c)
    \/ StageFail(c)
    \/ SuccessUpdate(c)
    \/ FailureReport(c)
    \/ FailureUpdate(c)
    \/ OpenTmp(c)
    \/ WriteTmp(c)
    \/ Rename(c)

\* The other process goes on with an operation it has started.
AdderStep ==
  \E c \in Operators :
    \/ Flock(c)
    \/ AddRecord(c)
    \/ OpenTmp(c)
    \/ WriteTmp(c)
    \/ Rename(c)

\* The runner's process and the other one are scheduled: a thread that can
\* take a step takes one, sleep returns, a process inside a store operation
\* finishes it.  Nothing obliges the other process to start an operation.
SpecPoll ==
  /\ InitPoll
  /\ [][\/ RunnerExit
         \/ NextIteration
         \/ RunnerStep
         \/ AdderStep
         \/ \E c \in Operators : AcquireOpen(c)]_vars
  /\ WF_vars(RunnerStep)
  /\ WF_vars(NextIteration)
  /\ WF_vars(RunnerExit)
  /\ WF_vars(AdderStep)

\* C26: in polling mode a record that is in todo, whether it was there when
\* the runner started or was added since, is eventually claimed by the
\* runner (a worker slot holds it), unless the runner has stopped running.
C26_TodoEventuallyClaimed ==
  LET InTodo(id) ==
        \E i \in 1..Len(fileRecs) : fileRecs[i].id = id /\ fileRecs[i].status = "todo"
  IN \A id \in TaskIds :
       InTodo(id) ~> ((\E c \in Slots : task[c] = id) \/ run.exit # -1)

\* ------------------------------------------- a pass, cancel and cleanup
\* A single pass with one worker while an operator cancels tasks and cleans
\* up after them.
InitRunnerCleanup ==
  /\ fileRecs \in {<<Rec("T1", "todo")>>, <<Parked("T1", "done"), Rec("T2", "todo")>>}
  /\ run \in {r \in RunArgs : r.mode = "pass" /\ r.id = None /\ r.max_parallel = 1}
  /\ role = [c \in Callers |->
              IF c \in PoolOf(run) THEN "pool" ELSE IF c \in Operators THEN "cli" ELSE "api"]
  /\ budget = MaxOps + CleanupDepth
  /\ InitRest

SpecRunnerCleanup ==
  /\ InitRunnerCleanup
  /\ [][\/ RunnerExit
         \/ \E c \in Slots \cup Operators :
              \/ RunnerAcquire(c)
              \/ Flock(c)
              \/ RunnerClaimFirst(c)
              \/ Dispatch(c)
              \/ SetupArtifacts(c)
              \/ SetupUpdate(c)
              \/ StageFail(c)
              \/ SuccessUpdate(c)
              \/ FailureReport(c)
              \/ FailureUpdate(c)
              \/ GetRecord(c, "cmd_cancel")
              \/ GetRecord(c, "cmd_cleanup")
              \/ CancelUpdate(c)
              \/ CleanupArtifacts(c)
              \/ CleanupUpdate(c)
              \/ OpenTmp(c)
              \/ WriteTmp(c)
              \/ Rename(c)]_vars

\* C31: once the cleanup of a done or cancelled record has completed (its
\* clearing update is stored), no container launched for that task is left,
\* whether or not the record's container field was set.
C31_CleanupLeavesNoContainer ==
  [][\A c \in Operators :
       (Commits(c) /\ cur[c].op = "cleanup_update") =>
         {p \in disk' : p[1] = "container" /\ p[2] = cur[c].id} = {}]_vars

\* ------------------------------------------------- the lock, on every exit
\* Two threads of one store and another process issue store operations on
\* files that may hold a line that does not build a record; writes may
\* fail.  Every way an operation can end occurs: a return, not found,
\* duplicate id, invalid status, invalid transition, a failed read, a
\* failed write.
InitLock ==
  /\ fileRecs \in InitFiles \cup ForeignFiles
  /\ role = [c \in Callers |-> "api"]
  /\ budget = MaxOps - 1
  /\ InitNoRun
  /\ InitRest

SpecLock ==
  /\ InitLock
  /\ [][\E c \in {"c1", "c2", "c3"} :
           \/ AcquireOpen(c)
           \/ Flock(c)
           \/ AddRecord(c)
           \/ AddInvalid(c)
           \/ UpdateRecord(c)
           \/ RemoveRecord(c)
           \/ ClaimFirstTodo(c)
           \/ ClaimTodoById(c)
           \/ OpenTmp(c)
           \/ WriteTmp(c)
           \/ WriteFail(c)
           \/ Rename(c)]_vars

InOperation(s) == \E c \in Callers : StoreOf[c] = s /\ pc[c] # "idle"

\* C32: when a store operation ends, however it ends, the store holds
\* neither its thread lock nor the file's advisory lock nor the handle it
\* locked through; so a store with no operation in progress holds nothing,
\* and a caller waiting for the advisory lock while no other store is in an
\* operation can take it.
C32_LockReleasedOnEveryExit ==
  /\ [](\A s \in Stores :
          ~InOperation(s) => rlock[s] = None /\ lockH[s] = 0 /\ ~flocked[s])
  /\ [](\A c \in Callers :
          (pc[c] = "flock" /\ \A t \in Stores \ {StoreOf[c]} : ~InOperation(t)) =>
            \A t \in Stores \ {StoreOf[c]} : ~(flocked[t] /\ lockH[t] = lockH[StoreOf[c]]))
  /\ [][\A c \in Callers :
          (pc[c] # "idle" /\ pc'[c] = "idle") =>
            /\ rlock'[StoreOf[c]] = None
            /\ lockH'[StoreOf[c]] = 0
            /\ ~flocked'[StoreOf[c]]]_vars

\* After an operation ended by a failed write, a later operation holds the
\* lock.
C32_Witness ==
  /\ faults > 0
  /\ \E c \in Callers : pc[c] = "read" /\ flocked[StoreOf[c]]
  /\ \A d \in Callers : pc[d] \in {"idle", "read"}

\* ------------------------------------------------- the agent sequence
\* What a docker exec of an agent command can come to: it exits 0 with a
\* clean stderr, exits non-zero, exits 0 with a failure on stderr, times
\* out, or is never run because resolving the container or starting the
\* process raised.
\* run_make_plan: the checks before the try raise EndpointError; inside the
\* try every failure leaves as PlanError.
run_make_plan(endpoint_ok, body_ok, outcome) ==
  IF ~endpoint_ok \/ ~body_ok THEN "EndpointError"
  ELSE IF outcome = "ok" THEN "ok"
  ELSE "PlanError"

\* run_execute_plan: the same with BuildError.
run_execute_plan_leaky(endpoint_ok, outcome) ==
  IF ~endpoint_ok THEN "EndpointError"
  ELSE IF outcome = "ok" THEN "ok"
  ELSE IF outcome = "raised" THEN "EndpointError"
  ELSE "BuildError"

run_execute_plan(endpoint_ok, outcome) ==
  IF ~endpoint_ok THEN "EndpointError"
  ELSE IF outcome = "ok" THEN "ok"
  ELSE "BuildError"

\* run_plan_sequence's except clauses: PlanError, BuildError, Exception.
sequence_status(plan_result, build_result) ==
  IF plan_result = "PlanError" THEN "plan_failed"
  ELSE IF plan_result # "ok" THEN "plan_failed"
  ELSE IF build_result = "BuildError" THEN "build_failed"
  ELSE IF build_result # "ok" THEN "plan_failed"
  ELSE "success"

\* execute_stage: the stage of the TaskProcessingError it raises
stage_of(status) ==
  CASE status = "plan_failed" -> "planning"
    [] status = "build_failed" -> "building"
    [] OTHER -> None

InitAgent ==
  /\ fileRecs \in {<<>>, <<Rec("T1", "building")>>}
  /\ role = [c \in Callers |-> "api"]
  /\ budget = 0
  /\ InitNoRun
  /\ InitIdle
  /\ now = 0
  /\ LET CommandOutcomes == {"ok", "nonzero", "stderr_failure", "timeout", "raised"}
     IN agent \in [phase : {"start"}, endpoint_ok : BOOLEAN, body_ok : BOOLEAN,
                   plan : CommandOutcomes, build : CommandOutcomes,
                   plan_result : {None}, build_result : {None}, status : {None},
                   stage_error : {None}]
  /\ sandbox = NoEnv
  /\ docker = NoEnv

AgentStep(next) ==
  /\ agent' = next
  /\ UNCHANGED <<fsVars, rlock, lockH, flocked, pc, cur, pre, recs, tmpH, role, task,
                 stage, local, disk, budget, run, opsStarted, faults, now, sandbox, docker>>

\* result["plan_stdout"], result["plan_stderr"] = run_make_plan(...)
RunMakePlan ==
  /\ agent.phase = "start"
  /\ AgentStep([agent EXCEPT !.phase = "planned",
                             !.plan_result =
                                run_make_plan(agent.endpoint_ok, agent.body_ok, agent.plan)])

\* result["build_stdout"], result["build_stderr"] = run_execute_plan(...)
RunExecutePlan ==
  /\ agent.phase = "planned"
  /\ agent.plan_result = "ok"
  /\ AgentStep([agent EXCEPT !.phase = "built",
                             !.build_result =
                                run_execute_plan(agent.endpoint_ok, agent.build)])

\* return result
SequenceReturn ==
  /\ \/ agent.phase = "planned" /\ agent.plan_result # "ok"
     \/ agent.phase = "built"
  /\ AgentStep([agent EXCEPT !.phase = "returned",
                             !.status = sequence_status(agent.plan_result,
                                                        agent.build_result)])

\* execute_stage after run_plan_sequence has returned
ExecuteStageEnds ==
  /\ agent.phase = "returned"
  /\ AgentStep([agent EXCEPT !.phase = "ended", !.stage_error = stage_of(agent.status)])

SpecAgent ==
  /\ InitAgent
  /\ [][RunMakePlan \/ RunExecutePlan \/ SequenceReturn \/ ExecuteStageEnds]_vars

bootstrap_opencode_config_snapshot(source, target) == source

\* bootstrap_opencode_data_snapshot: mkdir(exist_ok=True), then auth.json
\* is copied when the host has one.
bootstrap_opencode_data_snapshot(host_auth, target) ==
  LET HostAuth == <<"auth.json", "host">>
  IN IF host_auth THEN {f \in target : f[1] # HostAuth[1]} \cup {HostAuth} ELSE target

InitSandbox ==
  /\ fileRecs \in {<<Rec("T1", "planning")>>}
  /\ role = [c \in Callers |-> "api"]
  /\ budget = 0
  /\ InitNoRun
  /\ InitIdle
  /\ now = 0
  /\ agent = NoEnv
  /\ sandbox \in [phase : {"earlier"},
                  config : SUBSET {<<"opencode.json", "earlier">>, <<"agent.md", "earlier">>},
                  data : SUBSET {<<"auth.json", "earlier">>, <<"session.db", "earlier">>},
                  host_config : SUBSET {<<"opencode.json", "host">>},
                  host_auth : BOOLEAN]
  /\ docker = NoEnv

SandboxStep(next) ==
  /\ sandbox' = next
  /\ UNCHANGED <<fsVars, rlock, lockH, flocked, pc, cur, pre, recs, tmpH, role, task,
                 stage, local, disk, budget, run, opsStarted, faults, now, agent, docker>>

\* attempt_config_dir.mkdir(parents=True, exist_ok=True), the same for data
MakeAttemptDirs ==
  /\ sandbox.phase = "earlier"
  /\ SandboxStep([sandbox EXCEPT !.phase = "dirs"])

BootstrapConfig ==
  /\ sandbox.phase = "dirs"
  /\ SandboxStep([sandbox EXCEPT
       !.phase = "config",
       !.config = bootstrap_opencode_config_snapshot(sandbox.host_config, sandbox.config)])

BootstrapData ==
  /\ sandbox.phase = "config"
  /\ SandboxStep([sandbox EXCEPT
       !.phase = "data",
       !.data = bootstrap_opencode_data_snapshot(sandbox.host_auth, sandbox.data)])

\* container_id = launch_container(config): the directories are mounted
LaunchWithSandbox ==
  /\ sandbox.phase = "data"
  /\ SandboxStep([sandbox EXCEPT !.phase = "launched"])

SpecSandbox ==
  /\ InitSandbox
  /\ [][MakeAttemptDirs \/ BootstrapConfig \/ BootstrapData \/ LaunchWithSandbox]_vars

\* C34: when the container is launched for a (task, attempt) pair whose
\* sandbox an earlier run has left, the config and data directories hold
\* nothing the earlier run put there.
C34_SandboxRecreated ==
  sandbox.phase = "launched" =>
    \A f \in sandbox.config \cup sandbox.data : f[2] # "earlier"

\* ------------------------------------------------- containers by name
\* Task ids and container names as character sequences: docker's name
\* filter matches any container whose name contains the filter's text.
\* derive_container_name: task-<safe-id>-<compact-ts>
derive_container_name(id, created_at) == <<"task-">> \o id \o <<"-">> \o created_at

\* docker ps -a --filter name=task-<task_id>
ListedFor(id, containers) ==
  LET IsInfix(part, whole) ==
        \E k \in 0..(Len(whole) - Len(part)) : SubSeq(whole, k + 1, k + Len(part)) = part
  IN {n \in containers : IsInfix(<<"task-">> \o id, n)}

InitDocker ==
  /\ fileRecs \in {<<>>}
  /\ role = [c \in Callers |-> "api"]
  /\ budget = 0
  /\ InitNoRun
  /\ InitIdle
  /\ now = 0
  /\ agent = NoEnv
  /\ sandbox = NoEnv
  /\ LET LongIds == {<<"T", "-", "1">>, <<"T", "-", "1", "0">>, <<"T", "-", "2">>}
         Stamps == {<<"2", "4">>, <<"2", "5">>}
         Names == {derive_container_name(id, ts) : id \in LongIds, ts \in Stamps}
     IN docker \in [phase : {"call"},
                    caller : {"cmd_cleanup", "dirty_run", "cleanup_on_fail"},
                    id : LongIds,
                    containers : SUBSET Names,
                    listed : {{}}, removed : {{}}]

DockerStep(next) ==
  /\ docker' = next
  /\ UNCHANGED <<fsVars, rlock, lockH, flocked, pc, cur, pre, recs, tmpH, role, task,
                 stage, local, disk, budget, run, opsStarted, faults, now, agent, sandbox>>

\* result = subprocess.run(["docker", "ps", "-a", "--filter", ...])
ListTaskContainers ==
  /\ docker.phase = "call"
  /\ DockerStep([docker EXCEPT !.phase = "listed",
                               !.listed = ListedFor(docker.id, docker.containers)])

\* for cid in container_ids: remove_container(cid, force=True); a removal
\* that fails is logged and the loop goes on.
RemoveListed ==
  /\ docker.phase = "listed"
  /\ \E gone \in SUBSET docker.listed :
       DockerStep([docker EXCEPT !.phase = "returned",
                                 !.removed = gone,
                                 !.containers = docker.containers \ gone])

SpecDocker ==
  /\ InitDocker
  /\ [][ListTaskContainers \/ RemoveListed]_vars

\* C35: bulk container cleanup for task X removes only containers launched
\* for X, never one of a task whose id has X's id as a prefix.
C35_CleanupAnchoredOnTask ==
  docker.phase = "returned" =>
    \A n \in docker.removed :
      \E ts \in {<<"2", "4">>, <<"2", "5">>} : n = derive_container_name(docker.id, ts)

\* ------------------------------------------------- updated_at and the clock
\* Two processes add, update and claim while the clock advances.  A patch
\* may carry an updated_at of its own: any reading up to the present one
\* (success_stage and failure_stage send the present one, setup_stage sends
\* the one of the record it holds).
InitStamp ==
  /\ LET Requeued(id) == Merge(Rec(id, "failed"), RetryPatch(Rec(id, "failed")))
     IN fileRecs \in {<<>>, <<Rec("T1", "todo")>>,
                      <<Rec("T1", "todo"), Rec("T2", "planning")>>,
                      <<Requeued("T1"), Rec("T2", "todo")>>,
                      <<Parked("T1", "done"), Requeued("T2")>>}
  /\ role = [c \in Callers |-> "api"]
  /\ budget = MaxOps - 1
  /\ InitNoRun
  /\ InitIdle
  /\ now = 0
  /\ agent = NoEnv
  /\ sandbox = NoEnv
  /\ docker = NoEnv

\* Time passes.
Tick ==
  /\ now < MaxClock
  /\ now' = now + 1
  /\ UNCHANGED <<fsVars, rlock, lockH, flocked, pc, cur, pre, recs, tmpH, role, task,
                 stage, local, disk, budget, run, opsStarted, faults, agent, sandbox, docker>>

\* update_record with a patch that names updated_at
UpdateStamped(c) ==
  \E id \in TaskIds, st \in {"todo", "planning", "building"}, t \in 0..now :
    /\ task[c] = None
    /\ role[c] = "api"
    /\ Decide(c, "update_record", st,
              update_record(fileRecs, id, [status |-> st, updated_at |-> t]))

SpecStamp ==
  /\ InitStamp
  /\ [][\/ Tick
         \/ \E c \in Procs :
              \/ AcquireOpen(c)
              \/ Flock(c)
              \/ AddRecord(c)
              \/ UpdateStamped(c)
              \/ ClaimFirstTodo(c)
              \/ ClaimTodoById(c)
              \/ OpenTmp(c)
              \/ WriteTmp(c)
              \/ Rename(c)]_vars

\* C36: an update or a claim that decides to write hands the affected
\* record to the write with updated_at equal to the clock's reading at that
\* moment, whatever value the patch carried; against the record it read the
\* value does not move backwards, and no stored updated_at lies in the
\* future.
C36_WritesStampUpdatedAt ==
  /\ [](\A i \in 1..Len(fileRecs) : fileRecs[i] # Garbled => fileRecs[i].updated_at <= now)
  /\ [][\A c \in Callers :
          (/\ pc[c] = "read"
           /\ pc'[c] = "open_tmp"
           /\ cur'[c].op \in {"update_record", "claim_first_todo", "claim_todo_by_id"}) =>
            /\ RecOf(recs'[c], cur'[c].id).updated_at = now
            /\ RecOf(recs'[c], cur'[c].id).updated_at
                 >= RecOf(fileRecs, cur'[c].id).updated_at]_vars

\* An update is about to write a record it read with an earlier stamp; the
\* record carries the present reading.
C36_Witness ==
  \E c \in Callers :
    /\ pc[c] = "open_tmp"
    /\ cur[c].op = "update_record"
    /\ now = MaxClock
    /\ RecOf(pre[c], cur[c].id).updated_at < now
    /\ RecOf(recs[c], cur[c].id).updated_at = now

\* ------------------------------------------- endpoint to container, by port
\* The agent commands run inside the container that publishes the endpoint's
\* port: docker ps --filter publish=<port> --format {{.ID}} lists one id per
\* line.
\* _container_id_from_port: errors of the command and an empty listing raise;
\* otherwise the first line is the container.
container_id_from_port(outcome, lines) ==
  IF outcome # "ok" THEN "EndpointError"
  ELSE IF lines = <<>> THEN "EndpointError"
  ELSE lines[1]

InitResolve ==
  /\ fileRecs \in {<<>>}
  /\ role = [c \in Callers |-> "api"]
  /\ budget = 0
  /\ InitNoRun
  /\ InitIdle
  /\ now = 0
  /\ agent = NoEnv
  /\ sandbox = NoEnv
  /\ docker \in ([phase : {"call"},
                  port : {"8000", "8001"},
                  running : UNION {[ids -> {"8000", "8001"}] : ids \in SUBSET {"a1", "b2", "e5"}},
                  lines : {<<>>},
                  outcome : {None},
                  container : {None},
                  executed : {None}])

\* subprocess.run(["docker", "ps", "--filter", "publish=<port>", ...])
PsPublish ==
  /\ docker.phase = "call"
  /\ \E outcome \in {"ok", "nonzero", "timeout"} :
       \E lines \in LET ids == {id \in DOMAIN docker.running :
                                    docker.running[id] = docker.port}
                    IN {l \in [1..Cardinality(ids) -> ids] :
                          \A i, j \in 1..Len(l) : i # j => l[i] # l[j]} :
         DockerStep([docker EXCEPT !.phase = "listed",
                                   !.outcome = outcome,
                                   !.lines = IF outcome = "ok" THEN lines ELSE <<>>])

\* the rest of _container_id_from_port
ResolveContainer ==
  /\ docker.phase = "listed"
  /\ LET id == container_id_from_port(docker.outcome, docker.lines)
     IN DockerStep([docker EXCEPT !.phase = IF id = "EndpointError" THEN "raised" ELSE "resolved",
                                  !.container = id])

\* cmd = ["docker", "exec", ..., container_id, "opencode", "run", ...]
DockerExec ==
  /\ docker.phase = "resolved"
  /\ DockerStep([docker EXCEPT !.phase = "executed", !.executed = docker.container])

SpecResolve ==
  /\ InitResolve
  /\ [][PsPublish \/ ResolveContainer \/ DockerExec]_vars

\* C37: resolution succeeds only when exactly one running container
\* publishes the endpoint's port; with none or several, or a failing
\* listing, it raises the endpoint error and no agent command is executed.
C37_ResolvesOnlyUniqueMatch ==
  /\ docker.phase \in {"resolved", "executed"} =>
       Cardinality({id \in DOMAIN docker.running : docker.running[id] = docker.port}) = 1
  /\ docker.phase = "raised" => docker.executed = None

\* ------------------------------------------- cleanup beside taskq remove/add
\* An operator cleans up while another removes records and adds records
\* under ids of the operator's choosing (taskq add --id).
InitCleanupRace ==
  /\ fileRecs \in {<<Parked("T1", s)>> : s \in {"done", "cancelled"}}
                   \cup {<<Parked("T1", "done"), Rec("T2", "todo")>>}
  /\ role = [c \in Callers |-> IF c \in Operators THEN "cli" ELSE "api"]
  /\ budget = MaxOps + 1
  /\ InitNoRun
  /\ InitRest

SpecCleanupRace ==
  /\ InitCleanupRace
  /\ [][\E c \in {"c3", "c4"} :
           \/ AcquireOpen(c)
           \/ Flock(c)
           \/ GetRecord(c, "cmd_cleanup")
           \/ CleanupArtifacts(c)
           \/ CleanupUpdate(c)
           \/ RemoveRecord(c)
           \/ AddRecord(c)
           \/ OpenTmp(c)
           \/ WriteTmp(c)
           \/ Rename(c)]_vars

\* C38: cleanup never removes the artifacts nor clears the handle fields of
\* a record whose stored status at that moment is todo, planning, building,
\* review or failed, also when the record behind the id changed after
\* cleanup read it.
C38_CleanupOnlyShelved ==
  [][\A c \in Operators :
       /\ (stage[c] = "cleanup_artifacts" /\ stage'[c] = "cleanup_update") =>
            RecOf(fileRecs, task[c]).status \notin VALID_STATUSES \ {"done", "cancelled"}
       /\ (Commits(c) /\ cur[c].op = "cleanup_update") =>
            RecOf(fileRecs, cur[c].id).status \notin VALID_STATUSES \ {"done", "cancelled"}]_vars

\* ------------------------------------------------ the ways into review
\* One pass of the runner beside an operator who cancels, retries, approves
\* and removes.
InitReview ==
  /\ fileRecs \in ({<<Rec("T1", "todo")>>, <<Rec("T1", "failed"), Rec("T2", "todo")>>,
                    <<Rec("T1", "todo"), Rec("T2", "review")>>})
  /\ run \in {r \in RunArgs : r.mode = "pass" /\ r.id = None /\ r.max_parallel = 1}
  /\ role = [c \in Callers |->
              IF c \in PoolOf(run) THEN "pool" ELSE IF c \in Operators THEN "cli" ELSE "api"]
  /\ budget = MaxOps + PassDepth
  /\ InitRest

SpecReview ==
  /\ InitReview
  /\ [][\/ RunnerExit
         \/ \E c \in Slots \cup Operators :
              \/ RunnerAcquire(c)
              \/ Flock(c)
              \/ RunnerClaimFirst(c)
              \/ Dispatch(c)
              \/ SetupArtifacts(c)
              \/ SetupUpdate(c)
              \/ StageFail(c)
              \/ SuccessUpdate(c)
              \/ FailureReport(c)
              \/ FailureUpdate(c)
              \/ GetRecord(c, "cmd_cancel")
              \/ GetRecord(c, "cmd_retry")
              \/ GetRecord(c, "cmd_approve")
              \/ CancelUpdate(c)
              \/ RetryUpdate(c)
              \/ ApproveUpdate(c)
              \/ OpenTmp(c)
              \/ WriteTmp(c)
              \/ Rename(c)]_vars

\* C39: the only operation that decides to write status review is the
\* success stage's update, issued by a worker of the runner for the record
\* it claimed, after its setup launched the container and stored building
\* and its execute stage ended without a failure; the record it reads is in
\* building.
C39_ReviewOnlyAfterSuccess ==
  [][\A c \in Callers : \A id \in TaskIds :
       (/\ pc[c] = "read"
        /\ pc'[c] = "open_tmp"
        /\ RecOf(recs'[c], id).status = "review"
        /\ RecOf(fileRecs, id).status # "review") =>
         /\ cur'[c].op = "success_update"
         /\ role[c] = "pool"
         /\ task[c] = id
         /\ stage[c] = "execute"
         /\ local[c].container # NoPath
         /\ RecOf(fileRecs, id).status = "building"]_vars

\* A worker has decided to store review for the record it set up.
C39_Witness ==
  \E c \in Slots :
    /\ pc[c] = "open_tmp"
    /\ cur[c].op = "success_update"
    /\ RecOf(pre[c], task[c]).status = "building"
    /\ RecOf(recs[c], task[c]).status = "review"
    /\ local[c].container # NoPath

\* --------------------------------------------------- what a claim changes
\* C40: a claim that succeeds hands to the write the records it read with
\* exactly one of them changed, the claimed one, and in it only status (todo
\* to planning) and updated_at; every other field of that record and every
\* other record are as read, in the same order.
C40_ClaimFrame ==
  [][\A c \in Callers :
       (pc[c] = "read" /\ pc'[c] = "open_tmp" /\ cur'[c].op \in ClaimOps) =>
         LET i == IndexOf(fileRecs, cur'[c].id) IN
         /\ i # 0
         /\ Len(recs'[c]) = Len(fileRecs)
         /\ \A j \in 1..Len(fileRecs) : j # i => recs'[c][j] = fileRecs[j]
         /\ fileRecs[i].status = "todo"
         /\ recs'[c][i].status = "planning"
         /\ \A f \in DOMAIN fileRecs[i] \ {"status", "updated_at"} :
              recs'[c][i][f] = fileRecs[i][f]]_vars

\* A claim is about to write a file of two records: the claimed one kept the
\* attempt and the branch its retry left, the other one is as read.
C40_Witness ==
  \E c \in Callers :
    /\ pc[c] = "open_tmp"
    /\ cur[c].op \in ClaimOps
    /\ Len(pre[c]) = 2
    /\ RecOf(pre[c], cur[c].id).attempt = 1
    /\ RecOf(recs[c], cur[c].id).attempt = 1
    /\ RecOf(recs[c], cur[c].id).updated_at = MaxClock
    /\ \E id \in TaskIds \ {cur[c].id} : RecOf(recs[c], id) = RecOf(pre[c], id)

====
